---- MODULE Spec2Model ----
(***************************************************************************)
(* Verification model of poker-arena: the single-table betting engine      *)
(* (internal/game), the hand evaluator (internal/poker) and the tournament *)
(* coordinator (internal/tournament).                                      *)
(*                                                                         *)
(* A table is the record g = [State, result, lastSettle]; State carries    *)
(* the fields of models.GameState, result is Game.result.  lastSettle is   *)
(* an observation field that is not in the source: it records the          *)
(* arguments of the endHand call made by the last advanceGame step, so     *)
(* that a settlement can be compared with the state it settled.            *)
(***************************************************************************)
EXTENDS Integers, Sequences, FiniteSets, TLC

\* ---------------------------------------------------------------- bounds
\* Hands a table may start (Start's loop is unbounded in the source).
MaxHands == 2
\* The same, for the tables whose decisions are fold or call only.
MaxHandsFC == 6
\* Tables of a tournament (config.Games).
MaxGames == 11
\* GameResults fed to one aggregation (TotalGames).
MaxAggGames == 3
\* Tables of a tournament whose tables are told apart.
MaxTables == 3
\* Reset goroutines of the rate limit pending at one time (one is started by
\* every rate-limited reply).
MaxResets == 2
\* the largest final stack of a seat in the results handed to the ranking
MaxFinalChips == 3

\* ------------------------------------------------------ program constants
NumPlayers == 4
StartChips == 20
SmallBlind == 5
BigBlind == 10
MinRaise == 10
\* the ceiling of the worker pool in runParallelGames
PoolCeiling == 10

Seats == 0..(NumPlayers - 1)
SeatSeq == [i \in 1..NumPlayers |-> i - 1]
TotalChips == NumPlayers * StartChips

None == "nil"

\* a *models.GameResult: the empty sequence for nil, else one record
NilResult == <<>>

\* ------------------------------------------------------------- utilities
min(a, b) == IF a < b THEN a ELSE b

\* a maximum that ignores its second argument
maxFirst(a, b) == a

max(a, b) == IF a > b THEN a ELSE b

contains(slice, item) == \E i \in 1..Len(slice) : slice[i] = item

Range(f) == {f[x] : x \in DOMAIN f}

SetMax(S) == CHOOSE x \in S : \A y \in S : y <= x

SetMin(S) == CHOOSE x \in S : \A y \in S : x <= y

RemoveAt(s, i) == [j \in 1..(Len(s) - 1) |-> IF j < i THEN s[j] ELSE s[j + 1]]

RECURSIVE InsertDesc(_, _)
InsertDesc(x, s) ==
    IF Len(s) = 0 THEN <<x>>
    ELSE IF x >= Head(s) THEN <<x>> \o s
    ELSE <<Head(s)>> \o InsertDesc(x, Tail(s))

RECURSIVE SortDesc(_)
\* sort.Slice(xs, func(i, j) bool { return xs[i] > xs[j] }) on integers
SortDesc(s) ==
    IF Len(s) = 0 THEN <<>> ELSE InsertDesc(Head(s), SortDesc(Tail(s)))

RECURSIVE Reverse(_)
Reverse(s) == IF Len(s) = 0 THEN <<>> ELSE Append(Reverse(Tail(s)), Head(s))

RECURSIVE SumChips(_, _)
SumChips(players, S) ==
    IF S = {} THEN 0
    ELSE LET p == CHOOSE x \in S : TRUE
         IN  players[p].Chips + SumChips(players, S \ {p})

\* ------------------------------------------------------------------ cards
\* A card is <<v, s>>, v in 2..14 (11 = J, 12 = Q, 13 = K, 14 = A) and s the
\* index of its suit in InitializeDeck's suits slice.  The program keeps a
\* card as the Go string value+suit; CardString is that string as its bytes.
CardValues == 2..14
CardSuits == 0..3

\* values[] of InitializeDeck as characters
ValueChars(v) ==
    CASE v = 10 -> <<"1", "0">>
      [] v = 11 -> <<"J">>
      [] v = 12 -> <<"Q">>
      [] v = 13 -> <<"K">>
      [] v = 14 -> <<"A">>
      [] OTHER  -> <<ToString(v)>>

\* the UTF-8 encoding of the suit symbols U+2660, U+2663, U+2665, U+2666
SuitBytes(s) ==
    CASE s = 0 -> <<"xE2", "x99", "xA0">>
      [] s = 1 -> <<"xE2", "x99", "xA3">>
      [] s = 2 -> <<"xE2", "x99", "xA5">>
      [] OTHER -> <<"xE2", "x99", "xA6">>

CardString(c) == ValueChars(c[1]) \o SuitBytes(c[2])

\* the deck before Shuffle: suit-major, values ascending
OrderedDeck == [i \in 1..52 |-> <<((i - 1) % 13) + 2, (i - 1) \div 13>>]

\* VALUES map; a missing key reads as the zero value
VALUES(value) ==
    CASE value = <<"2">> -> 2
      [] value = <<"3">> -> 3
      [] value = <<"4">> -> 4
      [] value = <<"5">> -> 5
      [] value = <<"6">> -> 6
      [] value = <<"7">> -> 7
      [] value = <<"8">> -> 8
      [] value = <<"9">> -> 9
      [] value = <<"1", "0">> -> 10
      [] value = <<"J">> -> 11
      [] value = <<"Q">> -> 12
      [] value = <<"K">> -> 13
      [] value = <<"A">> -> 14
      [] OTHER -> 0

\* parseCard indexes the string by byte: len(cardString) counts bytes
parseCard(cardString) ==
    IF Len(cardString) = 3
    THEN [Value |-> SubSeq(cardString, 1, 2), Suit |-> <<cardString[3]>>]
    ELSE [Value |-> <<cardString[1]>>, Suit |-> <<cardString[2]>>]

RECURSIVE SetToDesc(_)
SetToDesc(S) ==
    IF S = {} THEN <<>> ELSE <<SetMax(S)>> \o SetToDesc(S \ {SetMax(S)})

\* Filter of a sequence of integers
Without(seq, S) == SelectSeq(seq, LAMBDA x : x \notin S)

\* NewPokerHand up to the evaluation: the fields of PokerHand
NewPokerHand(cards) ==
    LET parsed == [i \in 1..Len(cards) |-> parseCard(CardString(cards[i]))]
        vals == [i \in 1..Len(cards) |-> VALUES(parsed[i].Value)]
    IN  [Cards        |-> parsed,
         SortedValues |-> SortDesc(vals),
         Suits        |-> [i \in 1..Len(cards) |-> parsed[i].Suit],
         ValueCounts  |-> [v \in Range(vals) |->
                              Cardinality({i \in 1..Len(cards) : vals[i] = v})]]

hasFlush(ph) ==
    IF Len(ph.Suits) = 0 THEN FALSE
    ELSE \A i \in 1..Len(ph.Suits) : ph.Suits[i] = ph.Suits[1]

hasStraight(ph) ==
    LET uniq == SetToDesc(Range(ph.SortedValues))
        values == IF Len(uniq) > 1 /\ uniq[1] = 14 /\ uniq[2] = 5
                  THEN Append(Tail(uniq), 1) ELSE uniq
    IN  IF Len(uniq) < 5 THEN FALSE
        ELSE \E start \in 1..(Len(values) - 4) :
                \A i \in 0..3 : values[start + i] - values[start + i + 1] = 1

\* evaluateHand.  The quad / trip / pair value is taken by ranging over the
\* ValueCounts map, whose iteration order Go leaves unspecified: the result
\* is the set of scores the iteration orders can produce.
evaluateHand(ph) ==
    LET sv == ph.SortedValues
        vc == ph.ValueCounts
        keys == SetToDesc(DOMAIN vc)
        counts == SortDesc([i \in 1..Len(keys) |-> vc[keys[i]]])
        isFlush == hasFlush(ph)
        isStraight == hasStraight(ph)
        withCount(n) == {v \in DOMAIN vc : vc[v] = n}
    IN  IF isFlush /\ isStraight /\ Len(sv) >= 5 /\ sv[1] = 14 /\ sv[5] = 10
        THEN {[Rank |-> 10, Value |-> sv]}
        ELSE IF isFlush /\ isStraight
        THEN {[Rank |-> 9, Value |-> sv]}
        ELSE IF Len(counts) > 0 /\ counts[1] = 4
        THEN {[Rank |-> 8, Value |-> <<q, Without(sv, {q})[1]>>] : q \in withCount(4)}
        ELSE IF Len(counts) >= 2 /\ counts[1] = 3 /\ counts[2] = 2
        THEN {[Rank |-> 7, Value |-> <<t, p>>] : t \in withCount(3), p \in withCount(2)}
        ELSE IF isFlush
        THEN {[Rank |-> 6, Value |-> sv]}
        ELSE IF isStraight
        THEN {[Rank |-> 5, Value |-> sv]}
        ELSE IF Len(counts) > 0 /\ counts[1] = 3
        THEN {[Rank |-> 4, Value |-> <<t>> \o Without(sv, {t})] : t \in withCount(3)}
        ELSE IF Len(counts) >= 2 /\ counts[1] = 2 /\ counts[2] = 2
        THEN {[Rank |-> 3, Value |-> Append(SetToDesc(withCount(2)),
                                            Without(sv, withCount(2))[1])]}
        ELSE IF Len(counts) > 0 /\ counts[1] = 2
        THEN {[Rank |-> 2, Value |-> <<p>> \o Without(sv, {p})] : p \in withCount(2)}
        ELSE {[Rank |-> 1, Value |-> sv]}

\* the less function CompareHands hands to sort.Slice
handLess(a, b) ==
    IF a.Rank # b.Rank THEN b.Rank < a.Rank
    ELSE LET minLen == min(Len(a.Value), Len(b.Value))
             diff == {k \in 1..minLen : a.Value[k] # b.Value[k]}
         IN  IF diff = {} THEN FALSE
             ELSE b.Value[SetMin(diff)] < a.Value[SetMin(diff)]

RECURSIVE insertSorted(_, _, _)
\* inner loop of the insertion sort sort.Slice runs on slices shorter than 12:
\* for j := i; j > a && less(j, j-1); j-- { swap(j, j-1) }
insertSorted(order, j, scores) ==
    IF j > 1 /\ handLess(scores[order[j]], scores[order[j - 1]])
    THEN insertSorted([order EXCEPT ![j] = order[j - 1], ![j - 1] = order[j]],
                      j - 1, scores)
    ELSE order

RECURSIVE sortHands(_, _, _)
sortHands(order, i, scores) ==
    IF i > Len(order) THEN order
    ELSE sortHands(insertSorted(order, i, scores), i + 1, scores)

\* CompareHands: the indices of hands, best first, for one choice of scores
CompareHands(scores) ==
    sortHands([i \in 1..Len(scores) |-> i], 2, scores)

\* ------------------------------------------------------------ table engine
\* models.GameState as built by NewGameWithID.  A player's Name is its seat
\* index.  GameLog and BettingComplete are never read by the engine and the
\* blind amounts and MinRaise are never assigned: they are the constants above.
NewGameState ==
    [Players           |-> [p \in Seats |-> [Chips |-> StartChips, Cards |-> <<>>]],
     Deck              |-> <<>>,
     CommunityCards    |-> <<>>,
     Pot               |-> 0,
     CurrentPlayer     |-> 0,
     Round             |-> "preflop",
     HandNumber        |-> 1,
     CurrentBet        |-> 0,
     PlayerBets        |-> <<>>,
     LastRaiseAmount   |-> 0,
     FoldedPlayers     |-> <<>>,
     DealerPosition    |-> 0,
     EliminatedPlayers |-> <<>>,
     GameEnded         |-> FALSE]

NoSettle == [kind |-> "none"]

NewGameWithID == [State |-> NewGameState, result |-> NilResult, lastSettle |-> NoSettle]

\* a map read that finds no entry at all
PlayerBetZero(s, p) == 0

\* g.State.PlayerBets[name]: a missing key reads as 0
PlayerBet(s, p) == IF p \in DOMAIN s.PlayerBets THEN s.PlayerBets[p] ELSE 0

\* g.State.PlayerBets[name] = v
SetPlayerBet(bets, p, v) ==
    [q \in (DOMAIN bets) \cup {p} |-> IF q = p THEN v ELSE bets[q]]

getActivePlayers(s) ==
    SelectSeq(SeatSeq, LAMBDA p : ~contains(s.EliminatedPlayers, p))

\* sum of all stacks plus the pot, as checkChipConservation computes it
totalChips(s) == SumChips(s.Players, Seats) + s.Pot

checkForEliminations(g) ==
    LET s == g.State
        newlyEliminated ==
            SelectSeq(SeatSeq, LAMBDA p : s.Players[p].Chips = 0
                                          /\ ~contains(s.EliminatedPlayers, p))
    IN  [g EXCEPT !.State.EliminatedPlayers = @ \o newlyEliminated]

checkForTournamentEnd(g) ==
    LET s == g.State
        activePlayers == getActivePlayers(s)
    IN  IF Len(activePlayers) = 1
        THEN [g EXCEPT !.State.GameEnded = TRUE,
                       !.result = <<[Winner     |-> activePlayers[1],
                                     TotalHands |-> s.HandNumber,
                                     Eliminated |-> s.EliminatedPlayers,
                                     FinalChips |-> s.Players[activePlayers[1]].Chips]>>]
        ELSE g

\* a dealer button that moves one seat on, eliminated or not
nextDealerAnySeat(s) == (s.DealerPosition + 1) % NumPlayers

\* next non-eliminated seat after the dealer, i = 1 .. len(Players)-1;
\* the dealer position itself when there is none
nextDealer(s) ==
    LET cands == {i \in 1..(NumPlayers - 1) :
                    ~contains(s.EliminatedPlayers, (s.DealerPosition + i) % NumPlayers)}
    IN  IF cands = {} THEN s.DealerPosition
        ELSE (s.DealerPosition + SetMin(cands)) % NumPlayers

\* blinds posted in full, whatever the seat holds
postBlindsUncapped(g) ==
    LET s == g.State
        activePlayers == getActivePlayers(s)
        n == Len(activePlayers)
        found == {i \in 1..n : activePlayers[i] = s.DealerPosition}
        \* dealerIndex is 0-based as in the source
        dealerIndex == IF found # {} THEN SetMin(found) - 1
                       ELSE IF nextDealer(s) # s.DealerPosition THEN 0 ELSE -1
        dealerPos == IF found # {} THEN s.DealerPosition ELSE nextDealer(s)
        smallBlindPlayer == activePlayers[((dealerIndex + 1) % n) + 1]
        bigBlindPlayer == activePlayers[((dealerIndex + 2) % n) + 1]
        sbAmount == SmallBlind
        s1 == [s EXCEPT !.DealerPosition = dealerPos,
                        !.Players[smallBlindPlayer].Chips = @ - sbAmount,
                        !.Pot = @ + sbAmount,
                        !.PlayerBets = SetPlayerBet(@, smallBlindPlayer, sbAmount)]
        bbAmount == BigBlind
        s2 == [s1 EXCEPT !.Players[bigBlindPlayer].Chips = @ - bbAmount,
                         !.Pot = @ + bbAmount,
                         !.PlayerBets = SetPlayerBet(@, bigBlindPlayer, bbAmount),
                         !.CurrentBet = bbAmount]
        firstToActPlayer == activePlayers[((((dealerIndex + 2) % n) + 1) % n) + 1]
    IN  IF n < 2 THEN g
        ELSE [g EXCEPT !.State = [s2 EXCEPT !.CurrentPlayer = firstToActPlayer]]

postBlinds(g) ==
    LET s == g.State
        activePlayers == getActivePlayers(s)
        n == Len(activePlayers)
        found == {i \in 1..n : activePlayers[i] = s.DealerPosition}
        \* dealerIndex is 0-based as in the source
        dealerIndex == IF found # {} THEN SetMin(found) - 1
                       ELSE IF nextDealer(s) # s.DealerPosition THEN 0 ELSE -1
        dealerPos == IF found # {} THEN s.DealerPosition ELSE nextDealer(s)
        smallBlindPlayer == activePlayers[((dealerIndex + 1) % n) + 1]
        bigBlindPlayer == activePlayers[((dealerIndex + 2) % n) + 1]
        sbAmount == min(SmallBlind, s.Players[smallBlindPlayer].Chips)
        s1 == [s EXCEPT !.DealerPosition = dealerPos,
                        !.Players[smallBlindPlayer].Chips = @ - sbAmount,
                        !.Pot = @ + sbAmount,
                        !.PlayerBets = SetPlayerBet(@, smallBlindPlayer, sbAmount)]
        bbAmount == min(BigBlind, s1.Players[bigBlindPlayer].Chips)
        s2 == [s1 EXCEPT !.Players[bigBlindPlayer].Chips = @ - bbAmount,
                         !.Pot = @ + bbAmount,
                         !.PlayerBets = SetPlayerBet(@, bigBlindPlayer, bbAmount),
                         !.CurrentBet = bbAmount]
        firstToActPlayer == activePlayers[((((dealerIndex + 2) % n) + 1) % n) + 1]
    IN  IF n < 2 THEN g
        ELSE [g EXCEPT !.State = [s2 EXCEPT !.CurrentPlayer = firstToActPlayer]]

\* A decision is <<action, amount>>; "raise" without a parsable amount is
\* <<"raise", 0>> (raiseAmount keeps its default, and max() gives the same)
RECURSIVE processDecision(_, _, _)
processDecision(g, decision, playerIndex) ==
    LET s == g.State
        player == s.Players[playerIndex]
        playerCurrentBet == PlayerBet(s, playerIndex)
        amountToCall == s.CurrentBet - playerCurrentBet
        totalBet == max(decision[2], s.CurrentBet + MinRaise)
        actualRaiseAmount == totalBet - playerCurrentBet
    IN  IF decision[1] = "raise"
        THEN IF actualRaiseAmount <= player.Chips
             THEN [g EXCEPT !.State.LastRaiseAmount = totalBet - s.CurrentBet,
                            !.State.CurrentBet = totalBet,
                            !.State.Pot = @ + actualRaiseAmount,
                            !.State.Players[playerIndex].Chips = @ - actualRaiseAmount,
                            !.State.PlayerBets = SetPlayerBet(@, playerIndex, totalBet)]
             ELSE IF player.Chips >= amountToCall
                  THEN processDecision(g, <<"call", 0>>, playerIndex)
                  ELSE processDecision(g, <<"fold", 0>>, playerIndex)
        ELSE IF decision[1] = "call"
        THEN IF player.Chips >= amountToCall
             THEN [g EXCEPT !.State.Pot = @ + amountToCall,
                            !.State.Players[playerIndex].Chips = @ - amountToCall,
                            !.State.PlayerBets = SetPlayerBet(@, playerIndex, s.CurrentBet)]
             ELSE processDecision(g, <<"fold", 0>>, playerIndex)
        ELSE IF decision[1] = "check"
        THEN IF amountToCall = 0 THEN g
             ELSE IF player.Chips >= amountToCall
                  THEN processDecision(g, <<"call", 0>>, playerIndex)
                  ELSE processDecision(g, <<"fold", 0>>, playerIndex)
        ELSE [g EXCEPT !.State.FoldedPlayers = Append(@, playerIndex)]

findFirstActivePlayerAfterDealer(s) ==
    LET cands == {i \in 1..NumPlayers :
                    ~contains(s.EliminatedPlayers, (s.DealerPosition + i) % NumPlayers)}
    IN  IF cands = {} THEN s.DealerPosition
        ELSE (s.DealerPosition + SetMin(cands)) % NumPlayers

\* a completeness test that lets every round advance
isBettingRoundCompleteAlways(s) == TRUE

isBettingRoundComplete(s) ==
    \A p \in Seats :
        (~contains(s.EliminatedPlayers, p) /\ ~contains(s.FoldedPlayers, p))
        => ~(PlayerBet(s, p) < s.CurrentBet /\ s.Players[p].Chips > 0)

\* strings.Join(cards, ""): the concatenation of the cards' bytes
RECURSIVE JoinCards(_)
JoinCards(cards) ==
    IF Len(cards) = 0 THEN <<>> ELSE CardString(Head(cards)) \o JoinCards(Tail(cards))

\* splitPot without "share++ // Distribute remainder"
splitPotDropRemainder(s, activePlayers) ==
    LET n == Len(activePlayers)
        potPerPlayer == s.Pot \div n
        share(p) == IF \E i \in 1..n : activePlayers[i] = p THEN potPerPlayer ELSE 0
    IN  [p \in Seats |-> [s.Players[p] EXCEPT !.Chips = @ + share(p)]]

\* the split of the pot when the hand ends with fewer than 5 community cards
splitPot(s, activePlayers) ==
    LET n == Len(activePlayers)
        potPerPlayer == s.Pot \div n
        remainder == s.Pot % n
        share(p) == IF \E i \in 1..n : activePlayers[i] = p
                    THEN potPerPlayer
                         + (IF SetMin({i \in 1..n : activePlayers[i] = p}) - 1 < remainder
                            THEN 1 ELSE 0)
                    ELSE 0
    IN  [p \in Seats |-> [s.Players[p] EXCEPT !.Chips = @ + share(p)]]

\* the showdown branch of endHand for one choice of the hands' scores: the
\* pot goes to the first non-folded seat whose cards, joined with the
\* community cards, spell the winning hand's cards
showdown(s, activePlayers, scores) ==
    LET hand(p) == s.Players[p].Cards \o s.CommunityCards
        winningHand == hand(activePlayers[CompareHands(scores)[1]])
        winningCards == JoinCards(winningHand)
        matching == {p \in Seats : ~contains(s.FoldedPlayers, p)
                                   /\ JoinCards(hand(p)) = winningCards}
    IN  IF matching = {} THEN s.Players
        ELSE [s.Players EXCEPT ![SetMin(matching)].Chips = @ + s.Pot]

\* a reset for the next hand that leaves the dealer button where it is
endHandResetKeepsDealer(g) ==
    LET s == g.State
    IN  [g EXCEPT !.State =
            [s EXCEPT !.Pot = 0,
                      !.Round = "preflop",
                      !.CommunityCards = <<>>,
                      !.FoldedPlayers = <<>>,
                      !.CurrentBet = 0,
                      !.PlayerBets = <<>>,
                      !.LastRaiseAmount = 0,
                      !.HandNumber = @ + 1,
                      !.Players = [p \in Seats |-> [s.Players[p] EXCEPT !.Cards = <<>>]]]]

\* "Reset for next hand" of endHand: hand-scoped state, dealer button, hand counter
endHandReset(g) ==
    LET s == g.State
        remainingPlayers == getActivePlayers(s)
    IN  [g EXCEPT !.State =
            [s EXCEPT !.Pot = 0,
                      !.Round = "preflop",
                      !.CommunityCards = <<>>,
                      !.FoldedPlayers = <<>>,
                      !.CurrentBet = 0,
                      !.PlayerBets = <<>>,
                      !.LastRaiseAmount = 0,
                      !.DealerPosition = IF Len(remainingPlayers) > 1
                                         THEN nextDealer(s) ELSE @,
                      !.HandNumber = @ + 1,
                      !.Players = [p \in Seats |-> [s.Players[p] EXCEPT !.Cards = <<>>]]]]

\* endHand: the set of outcomes, one per iteration order of the evaluator's maps
endHand(g) ==
    LET s == g.State
        activePlayers == SelectSeq(SeatSeq, LAMBDA p : ~contains(s.FoldedPlayers, p))
        n == Len(activePlayers)
        hands == [i \in 1..n |-> s.Players[activePlayers[i]].Cards \o s.CommunityCards]
        scoreSets == [i \in 1..n |-> evaluateHand(NewPokerHand(hands[i]))]
        scoreChoices ==
            {sc \in [1..n -> UNION Range(scoreSets)] : \A i \in 1..n : sc[i] \in scoreSets[i]}
        settle(players, kind, scores) ==
            endHandReset(checkForTournamentEnd(checkForEliminations(
                [g EXCEPT !.State.Players = players,
                          !.lastSettle = [kind |-> kind, pre |-> s, scores |-> scores]])))
    IN  IF n = 1
        THEN {settle([s.Players EXCEPT ![activePlayers[1]].Chips = @ + s.Pot],
                     "single", <<>>)}
        ELSE IF n = 0
        THEN {settle([s.Players EXCEPT ![(s.DealerPosition + 2) % NumPlayers].Chips
                                            = @ + s.Pot], "nobody", <<>>)}
        ELSE IF Len(s.CommunityCards) < 5
        THEN {settle(splitPot(s, activePlayers), "split", <<>>)}
        ELSE {settle(showdown(s, activePlayers, sc), "showdown", sc) : sc \in scoreChoices}

\* a street that takes no card from the deck
dealCommunityNone(s, k) == s

\* the cards a street takes from the end of the deck
dealCommunity(s, k) ==
    IF Len(s.Deck) >= k
    THEN [s EXCEPT !.CommunityCards = @ \o [i \in 1..k |-> s.Deck[Len(s.Deck) + 1 - i]],
                   !.Deck = SubSeq(@, 1, Len(s.Deck) - k)]
    ELSE s

\* a round advance that never settles: after the river it leaves the table
\* as it is
advanceRoundNoSettle(g) ==
    LET s == g.State
        next(round, k) ==
            dealCommunity([s EXCEPT !.Round = round,
                                    !.CurrentBet = 0,
                                    !.PlayerBets = <<>>,
                                    !.LastRaiseAmount = 0,
                                    !.CurrentPlayer = findFirstActivePlayerAfterDealer(s)], k)
    IN  CASE s.Round = "preflop" -> {[g EXCEPT !.State = next("flop", 3)]}
          [] s.Round = "flop"    -> {[g EXCEPT !.State = next("turn", 1)]}
          [] s.Round = "turn"    -> {[g EXCEPT !.State = next("river", 1)]}
          [] OTHER               -> {g}

advanceRound(g) ==
    LET s == g.State
        next(round, k) ==
            dealCommunity([s EXCEPT !.Round = round,
                                    !.CurrentBet = 0,
                                    !.PlayerBets = <<>>,
                                    !.LastRaiseAmount = 0,
                                    !.CurrentPlayer = findFirstActivePlayerAfterDealer(s)], k)
    IN  CASE s.Round = "preflop" -> {[g EXCEPT !.State = next("flop", 3)]}
          [] s.Round = "flop"    -> {[g EXCEPT !.State = next("turn", 1)]}
          [] s.Round = "turn"    -> {[g EXCEPT !.State = next("river", 1)]}
          [] s.Round = "river"   -> endHand(g)
          [] OTHER               -> {g}

RECURSIVE dealCards(_, _)
\* two cards from the end of the deck to every non-eliminated seat, in seat order
dealCards(s, p) ==
    IF p >= NumPlayers THEN s
    ELSE IF ~contains(s.EliminatedPlayers, p) /\ Len(s.Deck) >= 2
    THEN dealCards([s EXCEPT !.Players[p].Cards =
                                 <<s.Deck[Len(s.Deck)], s.Deck[Len(s.Deck) - 1]>>,
                             !.Deck = SubSeq(@, 1, Len(s.Deck) - 2)], p + 1)
    ELSE dealCards(s, p + 1)

\* a deal that leaves the hole cards in the deck
newHandKeepsDeck(g, deck) ==
    postBlinds([g EXCEPT !.State =
        [dealCards([g.State EXCEPT !.Deck = deck,
                                   !.CurrentBet = 0,
                                   !.PlayerBets = <<>>,
                                   !.FoldedPlayers = <<>>], 0) EXCEPT !.Deck = deck]])

\* "Initialize new hand" of advanceGame, for one result of poker.InitializeDeck
newHand(g, deck) ==
    postBlinds([g EXCEPT !.State =
        dealCards([g.State EXCEPT !.Deck = deck,
                                  !.CurrentBet = 0,
                                  !.PlayerBets = <<>>,
                                  !.FoldedPlayers = <<>>], 0)])

\* advanceGame from "currentPlayer := ..." on
playTurn(g, decision) ==
    LET s == g.State
        turn == s.CurrentPlayer
        g2 == IF ~contains(s.FoldedPlayers, turn) /\ ~contains(s.EliminatedPlayers, turn)
              THEN processDecision(g, decision, turn) ELSE g
        activeUnfoldedPlayers ==
            Cardinality({p \in Seats : ~contains(g2.State.EliminatedPlayers, p)
                                       /\ ~contains(g2.State.FoldedPlayers, p)})
        g3 == [g2 EXCEPT !.State.CurrentPlayer = (@ + 1) % NumPlayers]
    IN  IF activeUnfoldedPlayers <= 1 THEN endHand(g2)
        ELSE IF isBettingRoundComplete(g3.State) THEN advanceRound(g3)
        ELSE {g3}

\* whether advanceGame deals a new hand
atHandStart(s) ==
    s.Round = "preflop" /\ Len(s.CommunityCards) = 0 /\ DOMAIN s.PlayerBets = {}

\* advanceGame: the set of its outcomes over the decks InitializeDeck may
\* return (decks) and the evaluator's map iteration orders
advanceGame(g, decision, decks) ==
    IF g.State.GameEnded THEN {g}
    ELSE IF atHandStart(g.State)
    THEN IF Len(getActivePlayers(g.State)) < 2
         THEN {checkForTournamentEnd(g)}
         ELSE UNION {playTurn(newHand(g, deck), decision) : deck \in decks}
    ELSE playTurn(g, decision)

\* ------------------------------------------------------------------ decks
\* Shuffle may return any permutation of the 52 cards.  The model draws the
\* deck from a fixed set of permutations, each given by the order in which
\* its first cards are dealt (cards are dealt from the end of the slice).
MakeDeck(top) ==
    SelectSeq(OrderedDeck, LAMBDA c : ~contains(top, c)) \o Reverse(top)

\* hole cards (2,3) (2,3) then a high board: with two seats dealt in, both
\* hold the same values and the board outranks every hole card
DeckTie ==
    MakeDeck(<< <<2, 0>>, <<3, 1>>, <<2, 2>>, <<3, 3>>,
                <<14, 1>>, <<13, 2>>, <<12, 0>>, <<11, 3>>,
                <<9, 0>>, <<8, 1>>, <<7, 2>>, <<6, 3>>, <<5, 0>> >>)

\* distinct hole cards for every seat
DeckPlain ==
    MakeDeck(<< <<14, 0>>, <<13, 0>>, <<9, 2>>, <<8, 3>>,
                <<7, 1>>, <<6, 0>>, <<5, 3>>, <<4, 2>>,
                <<12, 1>>, <<11, 3>>, <<3, 0>>, <<2, 2>>, <<9, 1>> >>)

Decks == {DeckTie, DeckPlain}

\* ------------------------------------------------------------- decisions
\* what ai.GetAIDecision can hand to processDecision; a provider error is
\* replaced by "fold" in advanceGame
RaiseAmounts == {0, 30}
Decisions == {<<"fold", 0>>, <<"check", 0>>, <<"call", 0>>}
             \cup {<<"raise", a>> : a \in RaiseAmounts}

\* --------------------------------------------------------------- replies
\* What GetAIDecision returns: a decision and whether an error came with it.
\* The replies of a provider that answers with one of the decisions:
Replies(decisions) == {[decision |-> d, err |-> FALSE] : d \in decisions}

\* the reply of a provider that failed (no key, rate limit, transport or
\* decoding error): every error return of GetAIDecision carries "fold"
ErrorReply == [decision |-> <<"fold", 0>>, err |-> TRUE]

\* if err != nil { decision = "call" }
decisionOfCalls(reply) ==
    IF reply.err THEN <<"call", 0>> ELSE reply.decision

\* if err != nil { decision = "fold" }
decisionOf(reply) ==
    IF reply.err THEN <<"fold", 0>> ELSE reply.decision

\* whether advanceGame, called in state s, asks the provider: the table has
\* not ended, and either a hand is dealt to two or more seats (the first to
\* act is then a seat in the hand) or the current seat is in the hand
asksProvider(s) ==
    /\ ~s.GameEnded
    /\ IF atHandStart(s)
       THEN Len(getActivePlayers(s)) >= 2
       ELSE /\ ~contains(s.FoldedPlayers, s.CurrentPlayer)
            /\ ~contains(s.EliminatedPlayers, s.CurrentPlayer)

\* ------------------------------------------------------------ aggregation
\* Player.Name of the four seats
models_list ==
    <<"google/gemini-2.5-flash", "openai/gpt-5-nano",
      "openai/gpt-oss-120b", "anthropic/claude-3.5-haiku">>

\* The final stacks of an ended table, by seat: one seat holds everything,
\* or (endHand paying eliminated seats) chips are left on eliminated seats.
FinalStacks ==
    {<<80, 0, 0, 0>>, <<0, 80, 0, 0>>, <<0, 47, 17, 16>>}

\* the fields of a GameResult that the aggregation reads
GameResultOf(id, stacks) ==
    [GameID     |-> id,
     AllPlayers |-> [i \in 1..NumPlayers |->
                        [Name |-> models_list[i], Chips |-> stacks[i]]]]

\* an inner loop that also swaps neighbours with equal chips
RECURSIVE bubblePassSwapsEqual(_, _, _)
bubblePassSwapsEqual(players, j, last) ==
    IF j > last THEN players
    ELSE bubblePassSwapsEqual(
             IF players[j].Chips <= players[j + 1].Chips
             THEN [players EXCEPT ![j] = players[j + 1], ![j + 1] = players[j]]
             ELSE players, j + 1, last)

\* the inner loop of the bubble sort, j = from .. last (1-based)
RECURSIVE bubblePass(_, _, _)
bubblePass(players, j, last) ==
    IF j > last THEN players
    ELSE bubblePass(IF players[j].Chips < players[j + 1].Chips
                    THEN [players EXCEPT ![j] = players[j + 1], ![j + 1] = players[j]]
                    ELSE players, j + 1, last)

\* the outer loop, i = 0 .. len(players)-2
RECURSIVE bubbleSort(_, _)
bubbleSort(players, i) ==
    IF i >= Len(players) - 1 THEN players
    ELSE bubbleSort(bubblePass(players, 1, Len(players) - 1 - i), i + 1)

calculatePlayerRankings(res) ==
    LET players == bubbleSort(res.AllPlayers, 0)
    IN  [i \in 1..Len(players) |-> [Player |-> players[i], Rank |-> i]]

\* what the worker does to the result of Start before it sends it
populate(res) ==
    [GameID         |-> res.GameID,
     AllPlayers     |-> res.AllPlayers,
     PlayerRankings |-> calculatePlayerRankings(res)]

NewPlayerStats(name) ==
    [Name |-> name, TotalGames |-> 0, Wins |-> 0, SecondPlace |-> 0,
     ThirdPlace |-> 0, FourthPlace |-> 0, TotalChips |-> 0]

\* GameResults holds the GameIDs of the results appended; seen is not a field
\* of the source: it records the order in which keys entered PlayerStats
NewTournamentResult(totalGames) ==
    [TotalGames     |-> totalGames,
     CompletedGames |-> 0,
     GameResults    |-> <<>>,
     PlayerStats    |-> [n \in {} |-> 0],
     OverallWinner  |-> "",
     seen           |-> <<>>]

IsComplete(t) == t.CompletedGames >= t.TotalGames

\* an iteration that counts no fourth place
addRankingSkipsFourth(t, ranking) ==
    LET playerName == ranking.Player.Name
        exists == playerName \in DOMAIN t.PlayerStats
        stats == IF exists THEN t.PlayerStats[playerName] ELSE NewPlayerStats(playerName)
        bump(rank) == IF ranking.Rank = rank THEN 1 ELSE 0
        updated == [stats EXCEPT !.TotalGames = @ + 1,
                                 !.TotalChips = @ + ranking.Player.Chips,
                                 !.Wins = @ + bump(1),
                                 !.SecondPlace = @ + bump(2),
                                 !.ThirdPlace = @ + bump(3)]
    IN  [t EXCEPT !.PlayerStats = (playerName :> updated) @@ t.PlayerStats,
                  !.seen = IF exists THEN @ ELSE Append(@, playerName)]

\* one iteration of "for _, ranking := range result.PlayerRankings"
addRanking(t, ranking) ==
    LET playerName == ranking.Player.Name
        exists == playerName \in DOMAIN t.PlayerStats
        stats == IF exists THEN t.PlayerStats[playerName] ELSE NewPlayerStats(playerName)
        bump(rank) == IF ranking.Rank = rank THEN 1 ELSE 0
        updated == [stats EXCEPT !.TotalGames = @ + 1,
                                 !.TotalChips = @ + ranking.Player.Chips,
                                 !.Wins = @ + bump(1),
                                 !.SecondPlace = @ + bump(2),
                                 !.ThirdPlace = @ + bump(3),
                                 !.FourthPlace = @ + bump(4)]
    IN  [t EXCEPT !.PlayerStats = (playerName :> updated) @@ t.PlayerStats,
                  !.seen = IF exists THEN @ ELSE Append(@, playerName)]

RECURSIVE addRankings(_, _, _)
addRankings(t, rankings, i) ==
    IF i > Len(rankings) THEN t
    ELSE addRankings(addRanking(t, rankings[i]), rankings, i + 1)

\* the orders in which a range over a map with these keys may visit them
IterationOrders(keys) ==
    {order \in [1..Cardinality(keys) -> keys] :
        \A i, j \in 1..Cardinality(keys) : i # j => order[i] # order[j]}

\* the loop of updateOverallWinner for one iteration order
RECURSIVE winnerLoop(_, _, _, _)
winnerLoop(t, order, i, maxWins) ==
    IF i > Len(order) THEN t
    ELSE LET stats == t.PlayerStats[order[i]]
         IN  IF stats.Wins > maxWins
             THEN winnerLoop([t EXCEPT !.OverallWinner = stats.Name], order, i + 1, stats.Wins)
             ELSE winnerLoop(t, order, i + 1, maxWins)

\* updateOverallWinner: one outcome for every iteration order of PlayerStats
updateOverallWinner(t) ==
    {winnerLoop(t, order, 1, 0) : order \in IterationOrders(DOMAIN t.PlayerStats)}

\* AddGameResult: the set of its outcomes
AddGameResult(t, res) ==
    LET appended == [t EXCEPT !.GameResults = Append(@, res.GameID),
                              !.CompletedGames = @ + 1]
        merged == addRankings(appended, res.PlayerRankings, 1)
    IN  IF IsComplete(merged) THEN updateOverallWinner(merged) ELSE {merged}

\* ------------------------------------------------------------- variables
\* One table: State, result (Game.State, Game.result), lastSettle (see the
\* head of the module), stopChan (Game.stopChan), pc and ret (where Start is
\* and what it returned), providerErr (whether the last advanceGame step
\* asked the provider and got an error).
\* One tournament: Games (config.Games), mgr and launched (where
\* runParallelGames is), at (how many worker goroutines are at each point of
\* the worker function), workerSem (tokens in the semaphore channel), wg (the
\* WaitGroup counter), ctx (gm.ctx), resultsChan, tournament
\* (gm.tournament) and err (the error runParallelGames returned).
VARIABLES State, result, lastSettle, stopChan, pc, ret, providerErr,
          Games, mgr, launched, at, workerSem, wg, ctx, resultsChan, tournament, err,
          tr, arrivals,
          worker, queue, collector, mu, reporter,
          rateLimited, initialTotalChips, calls,
          arg, out

tableVars == <<State, result, lastSettle, stopChan, pc, ret, providerErr>>

tourVars == <<Games, mgr, launched, at, workerSem, wg, ctx, resultsChan, tournament, err>>

\* One aggregation: tr (a models.TournamentResult) and arrivals (the final
\* stacks of the tables whose GameResults are fed to it, by GameID).
aggVars == <<tr, arrivals>>

\* the variables of neither the table nor the tournament
\* One tournament with the tables told apart: worker (where the goroutine of
\* each GameID is), queue (the GameIDs whose results are in resultsChan, and
\* whether it is closed), collector (where the range loop is and the result
\* it holds), mu (gm.mu) and reporter (where reportProgress is and what it
\* has read).  Games, workerSem, wg, ctx, mgr and err are shared with the
\* tournament above, and tr is gm.tournament.
mgrVars == <<worker, queue, collector, mu, reporter>>

\* What the tables of one process share: rateLimited (the flag of package ai,
\* with the reset goroutines pending and the table whose reply set it),
\* initialTotalChips (the baseline of checkChipConservation, with the table
\* that set it) and calls (for every table: where its GetAIDecision call is,
\* what advanceGame last applied and why, and which of the two package
\* variables it has touched).
provVars == <<rateLimited, initialTotalChips, calls>>

\* One call of a function that reads no table: arg (what it is given) and
\* out (what it returned; the empty sequence before it has returned).
fnVars == <<arg, out>>

restVars == <<aggVars, mgrVars, provVars, fnVars>>

vars == <<tableVars, tourVars, restVars>>

Game == [State |-> State, result |-> result, lastSettle |-> NoSettle]

\* ------------------------------------------------------------- one table
TableInit ==
    /\ State = NewGameWithID.State
    /\ result = NewGameWithID.result
    /\ lastSettle = NewGameWithID.lastSettle
    /\ stopChan = "open"
    /\ pc = "running"
    /\ ret = NilResult
    /\ providerErr = FALSE

\* Start's loop without "case <-g.stopChan: return nil"
AdvanceGameIgnoresStop(replies, decks, maxHands) ==
    /\ pc = "running"
    /\ ~State.GameEnded
    /\ State.HandNumber <= maxHands
    /\ \E reply \in replies :
         \E g2 \in advanceGame(Game, decisionOf(reply), decks) :
            /\ State' = g2.State
            /\ result' = g2.result
            /\ lastSettle' = g2.lastSettle
            /\ providerErr' = (reply.err /\ asksProvider(State))
    /\ UNCHANGED <<stopChan, pc, ret, tourVars, restVars>>

\* one iteration of Start's loop: the default branch of the select
AdvanceGame(replies, decks, maxHands) ==
    /\ pc = "running"
    /\ ~State.GameEnded
    /\ stopChan = "open"
    /\ State.HandNumber <= maxHands
    /\ \E reply \in replies :
         \E g2 \in advanceGame(Game, decisionOf(reply), decks) :
            /\ State' = g2.State
            /\ result' = g2.result
            /\ lastSettle' = g2.lastSettle
            /\ providerErr' = (reply.err /\ asksProvider(State))
    /\ UNCHANGED <<stopChan, pc, ret, tourVars, restVars>>

\* Game.Stop
Stop ==
    /\ pc = "running"
    /\ stopChan = "open"
    /\ stopChan' = "closed"
    /\ UNCHANGED <<State, result, lastSettle, pc, ret, providerErr, tourVars, restVars>>

\* Start returns g.result once GameEnded, nil when stopChan is closed
StartReturn ==
    /\ pc = "running"
    /\ State.GameEnded \/ stopChan = "closed"
    /\ pc' = "returned"
    /\ ret' = IF State.GameEnded THEN result ELSE NilResult
    /\ UNCHANGED <<State, result, lastSettle, stopChan, providerErr, tourVars, restVars>>

\* ---------------------------------------------------------- one tournament
\* The worker goroutines of runParallelGames run the same function on tables
\* of their own, so the model counts the goroutines at each point of it:
\*   "acquire"  at  workerSem <- struct{}{}
\*   "check"    holding a slot, at the select on gm.ctx.Done()
\*   "loop"     in g.Start(), at the top of its loop, table not ended
\*   "call"     in g.Start(), inside advanceGame (decision provider called)
\*   "ended"    in g.Start(), the table has ended (GameEnded)
\*   "exit"     returned
\* Nothing in runParallelGames closes a table's stopChan, and how a table plays
\* is abstracted to whether an advanceGame step leaves it ended.
Points == {"acquire", "check", "loop", "call", "ended", "exit"}

\* maxWorkers := min(gm.config.Games, 10), with no ceiling
maxWorkersNoCeiling(games) == games

\* maxWorkers := min(gm.config.Games, 10)
maxWorkers(games) == min(games, PoolCeiling)

move(from, to) == [at EXCEPT ![from] = @ - 1, ![to] = @ + 1]

\* tables inside g.Start()
InStart == at["loop"] + at["call"] + at["ended"]

TourIdle ==
    /\ Games = 0
    /\ mgr = "idle"
    /\ launched = 0
    /\ at = [p \in Points |-> 0]
    /\ workerSem = 0
    /\ wg = 0
    /\ ctx = "active"
    /\ resultsChan = [len |-> 0, closed |-> FALSE]
    /\ tournament = [TotalGames |-> 0, CompletedGames |-> 0]
    /\ err = None

\* NewGameManager, and runParallelGames up to "Launch all games"
TourInit(maxGames) ==
    /\ Games \in 2..maxGames
    /\ mgr = "launch"
    /\ launched = 0
    /\ at = [p \in Points |-> 0]
    /\ workerSem = 0
    /\ wg = 0
    /\ ctx = "active"
    /\ resultsChan = [len |-> 0, closed |-> FALSE]
    /\ tournament = [TotalGames |-> Games, CompletedGames |-> 0]
    /\ err = None

\* one iteration of "for i, g := range games": wg.Add(1); go func ...
Launch ==
    /\ mgr = "launch"
    /\ launched < Games
    /\ launched' = launched + 1
    /\ wg' = wg + 1
    /\ at' = [at EXCEPT !["acquire"] = @ + 1]
    /\ UNCHANGED <<Games, mgr, workerSem, ctx, resultsChan, tournament, err, tableVars, restVars>>

\* the loop is over: the closing goroutine is started, the collection begins
BeginCollect ==
    /\ mgr = "launch"
    /\ launched = Games
    /\ mgr' = "collect"
    /\ UNCHANGED <<Games, launched, at, workerSem, wg, ctx, resultsChan, tournament, err,
                   tableVars, restVars>>

\* workerSem <- struct{}{} blocks while the channel is full
Acquire ==
    /\ at["acquire"] > 0
    /\ workerSem < maxWorkers(Games)
    /\ workerSem' = workerSem + 1
    /\ at' = move("acquire", "check")
    /\ UNCHANGED <<Games, mgr, launched, wg, ctx, resultsChan, tournament, err, tableVars, restVars>>

\* select { case <-gm.ctx.Done(): return; default: } and the deferred calls
CheckCtx ==
    /\ at["check"] > 0
    /\ IF ctx = "canceled"
       THEN /\ at' = move("check", "exit")
            /\ workerSem' = workerSem - 1
            /\ wg' = wg - 1
       ELSE /\ at' = move("check", "loop")
            /\ UNCHANGED <<workerSem, wg>>
    /\ UNCHANGED <<Games, mgr, launched, ctx, resultsChan, tournament, err, tableVars, restVars>>

\* Start: stopChan is open and the table has not ended, so advanceGame runs
BeginCall ==
    /\ at["loop"] > 0
    /\ at' = move("loop", "call")
    /\ UNCHANGED <<Games, mgr, launched, workerSem, wg, ctx, resultsChan, tournament, err,
                   tableVars, restVars>>

\* advanceGame returns; the table has ended or not
EndCall ==
    /\ at["call"] > 0
    /\ \E ended \in BOOLEAN : at' = move("call", IF ended THEN "ended" ELSE "loop")
    /\ UNCHANGED <<Games, mgr, launched, workerSem, wg, ctx, resultsChan, tournament, err,
                   tableVars, restVars>>

\* Start returns the result; it is sent if gm.ctx.Err() == nil (the channel
\* has room for every table); the slot is released, wg.Done()
Finish ==
    /\ at["ended"] > 0
    /\ at' = move("ended", "exit")
    /\ resultsChan' = IF ctx = "active"
                      THEN [resultsChan EXCEPT !.len = @ + 1] ELSE resultsChan
    /\ workerSem' = workerSem - 1
    /\ wg' = wg - 1
    /\ UNCHANGED <<Games, mgr, launched, ctx, tournament, err, tableVars, restVars>>

\* go func() { wg.Wait(); close(resultsChan) }()
CloseResults ==
    /\ mgr # "launch"
    /\ wg = 0
    /\ ~resultsChan.closed
    /\ resultsChan' = [resultsChan EXCEPT !.closed = TRUE]
    /\ UNCHANGED <<Games, mgr, launched, at, workerSem, wg, ctx, tournament, err, tableVars, restVars>>

\* one iteration of "for result := range resultsChan"
Collect ==
    /\ mgr = "collect"
    /\ resultsChan.len > 0
    /\ resultsChan' = [resultsChan EXCEPT !.len = @ - 1]
    /\ IF ctx = "canceled"
       THEN /\ mgr' = "returned"
            /\ err' = "context canceled"
            /\ UNCHANGED tournament
       ELSE /\ tournament' = [tournament EXCEPT !.CompletedGames = @ + 1]
            /\ UNCHANGED <<mgr, err>>
    /\ UNCHANGED <<Games, launched, at, workerSem, wg, ctx, tableVars, restVars>>

\* the range loop ends on the closed, drained channel: return gm.tournament, nil
CollectDone ==
    /\ mgr = "collect"
    /\ resultsChan.len = 0
    /\ resultsChan.closed
    /\ mgr' = "returned"
    /\ err' = None
    /\ UNCHANGED <<Games, launched, at, workerSem, wg, ctx, resultsChan, tournament,
                   tableVars, restVars>>

\* GameManager.Stop while the tournament runs: gm.cancel()
StopTournament ==
    /\ mgr \in {"launch", "collect"}
    /\ ctx = "active"
    /\ ctx' = "canceled"
    /\ UNCHANGED <<Games, mgr, launched, at, workerSem, wg, resultsChan, tournament, err,
                   tableVars, restVars>>

\* ------------------------------------------------------- one aggregation
\* no function call is modelled
FnIdle ==
    /\ arg = <<>>
    /\ out = <<>>

AggIdle ==
    /\ tr = NewTournamentResult(0)
    /\ arrivals = <<>>

\* NewTournamentResult(config.Games) and the results the tables will produce
AggInit(maxGames) ==
    /\ \E n \in 1..maxGames :
          /\ arrivals \in [1..n -> FinalStacks]
          /\ tr = NewTournamentResult(n)

\* the collector receives the result of a table that has not reported yet
\* and merges it
AddResult ==
    /\ \E id \in DOMAIN arrivals :
          /\ ~contains(tr.GameResults, id)
          /\ tr' \in AddGameResult(tr, populate(GameResultOf(id, arrivals[id])))
    /\ UNCHANGED <<arrivals, tableVars, tourVars, mgrVars, provVars, fnVars>>

\* --------------------------------------- one tournament, tables told apart
\* the stacks every table of this tournament ends with
EndStacks == <<80, 0, 0, 0>>

MgrIdle ==
    /\ worker = <<>>
    /\ queue = [items |-> <<>>, closed |-> FALSE]
    /\ collector = [pc |-> "range", result |-> 0]
    /\ mu = [writer |-> FALSE, readers |-> 0]
    /\ reporter = [pc |-> "off", progress |-> 0, completed |-> 0, total |-> 0]

\* runParallelGames after "Launch all games": every worker goroutine is
\* started, the closing goroutine waits, reportProgress runs if Verbose
MgrInit(maxTables) ==
    /\ Games \in 2..maxTables
    /\ mgr = "collect"
    /\ launched = Games
    /\ at = [p \in Points |-> 0]
    /\ workerSem = 0
    /\ wg = Games
    /\ ctx = "active"
    /\ resultsChan = [len |-> 0, closed |-> FALSE]
    /\ tournament = [TotalGames |-> Games, CompletedGames |-> 0]
    /\ err = None
    /\ tr = NewTournamentResult(Games)
    /\ arrivals = [id \in 1..Games |-> EndStacks]
    /\ worker = [id \in 1..Games |-> "acquire"]
    /\ queue = [items |-> <<>>, closed |-> FALSE]
    /\ collector = [pc |-> "range", result |-> 0]
    /\ mu = [writer |-> FALSE, readers |-> 0]
    /\ \E Verbose \in BOOLEAN :
          reporter = [pc |-> IF Verbose THEN "wait" ELSE "off",
                      progress |-> 0, completed |-> 0, total |-> 0]

\* what the actions of this tournament leave alone
mgrFrame == <<Games, launched, at, resultsChan, tournament, arrivals, tableVars, provVars,
              fnVars>>

\* workerSem <- struct{}{}
WorkerAcquire(id) ==
    /\ worker[id] = "acquire"
    /\ workerSem < maxWorkers(Games)
    /\ workerSem' = workerSem + 1
    /\ worker' = [worker EXCEPT ![id] = "check"]
    /\ UNCHANGED <<mgr, err, wg, ctx, tr, queue, collector, mu, reporter, mgrFrame>>

\* select { case <-gm.ctx.Done(): return; default: }
WorkerCheckCtx(id) ==
    /\ worker[id] = "check"
    /\ IF ctx = "canceled"
       THEN /\ worker' = [worker EXCEPT ![id] = "exit"]
            /\ workerSem' = workerSem - 1
            /\ wg' = wg - 1
       ELSE /\ worker' = [worker EXCEPT ![id] = "start"]
            /\ UNCHANGED <<workerSem, wg>>
    /\ UNCHANGED <<mgr, err, ctx, tr, queue, collector, mu, reporter, mgrFrame>>

\* the send of a finished table: resultsChan <- result, twice
sendTwice(items, id) == Append(Append(items, id), id)

\* the send of a finished table: resultsChan <- result
send(items, id) == Append(items, id)

\* a worker whose deferred "<-gm.workerSem" is missing: the slot stays taken
WorkerFinishKeepsSlot(id) ==
    /\ worker[id] = "start"
    /\ worker' = [worker EXCEPT ![id] = "exit"]
    /\ queue' = IF ctx = "active"
                THEN [queue EXCEPT !.items = send(@, id)] ELSE queue
    /\ wg' = wg - 1
    /\ UNCHANGED <<mgr, err, ctx, tr, collector, mu, reporter, mgrFrame, workerSem>>

\* g.Start() returns the table's result; it is sent if gm.ctx.Err() == nil;
\* the deferred calls release the slot and call wg.Done()
WorkerFinish(id) ==
    /\ worker[id] = "start"
    /\ worker' = [worker EXCEPT ![id] = "exit"]
    /\ queue' = IF ctx = "active"
                THEN [queue EXCEPT !.items = send(@, id)] ELSE queue
    /\ workerSem' = workerSem - 1
    /\ wg' = wg - 1
    /\ UNCHANGED <<mgr, err, ctx, tr, collector, mu, reporter, mgrFrame>>

\* go func() { wg.Wait(); close(resultsChan) }()
CloseChan ==
    /\ wg = 0
    /\ ~queue.closed
    /\ queue' = [queue EXCEPT !.closed = TRUE]
    /\ UNCHANGED <<mgr, err, workerSem, wg, ctx, tr, worker, collector, mu, reporter,
                   mgrFrame>>

\* "for result := range resultsChan" receives; the select on gm.ctx.Done()
Receive ==
    /\ mgr = "collect"
    /\ collector.pc = "range"
    /\ Len(queue.items) > 0
    /\ queue' = [queue EXCEPT !.items = Tail(@)]
    /\ IF ctx = "canceled"
       THEN /\ mgr' = "returned"
            /\ err' = "context canceled"
            /\ UNCHANGED collector
       ELSE /\ collector' = [pc |-> "lock", result |-> Head(queue.items)]
            /\ UNCHANGED <<mgr, err>>
    /\ UNCHANGED <<workerSem, wg, ctx, tr, worker, mu, reporter, mgrFrame>>

\* gm.mu.Lock() that does not wait for the readers
LockIgnoresReaders ==
    /\ collector.pc = "lock"
    /\ ~mu.writer
    /\ mu' = [mu EXCEPT !.writer = TRUE]
    /\ collector' = [collector EXCEPT !.pc = "locked"]
    /\ UNCHANGED <<mgr, err, workerSem, wg, ctx, tr, worker, queue, reporter, mgrFrame>>

\* gm.mu.Lock()
Lock ==
    /\ collector.pc = "lock"
    /\ ~mu.writer
    /\ mu.readers = 0
    /\ mu' = [mu EXCEPT !.writer = TRUE]
    /\ collector' = [collector EXCEPT !.pc = "locked"]
    /\ UNCHANGED <<mgr, err, workerSem, wg, ctx, tr, worker, queue, reporter, mgrFrame>>

\* gm.tournament.AddGameResult(result)
Merge ==
    /\ collector.pc = "locked"
    /\ tr' \in AddGameResult(tr, populate(GameResultOf(collector.result,
                                                       arrivals[collector.result])))
    /\ collector' = [collector EXCEPT !.pc = "merged"]
    /\ UNCHANGED <<mgr, err, workerSem, wg, ctx, worker, queue, mu, reporter, mgrFrame>>

\* gm.mu.Unlock(), and back to the range
Unlock ==
    /\ collector.pc = "merged"
    /\ mu' = [mu EXCEPT !.writer = FALSE]
    /\ collector' = [pc |-> "range", result |-> 0]
    /\ UNCHANGED <<mgr, err, workerSem, wg, ctx, tr, worker, queue, reporter, mgrFrame>>

\* the range ends on the closed, drained channel: return gm.tournament, nil
ReturnDone ==
    /\ mgr = "collect"
    /\ collector.pc = "range"
    /\ Len(queue.items) = 0
    /\ queue.closed
    /\ mgr' = "returned"
    /\ err' = None
    /\ UNCHANGED <<workerSem, wg, ctx, tr, worker, queue, collector, mu, reporter, mgrFrame>>

\* GameManager.Stop: gm.cancel()
Cancel ==
    /\ ctx = "active"
    /\ ctx' = "canceled"
    /\ UNCHANGED <<mgr, err, workerSem, wg, tr, worker, queue, collector, mu, reporter,
                   mgrFrame>>

\* GetProgress: CompletedGames / TotalGames * 100 (the whole percents)
GetProgress(t) ==
    IF t.TotalGames = 0 THEN 0 ELSE (t.CompletedGames * 100) \div t.TotalGames

\* reportProgress: case <-gm.ctx.Done(): return
ReporterExit ==
    /\ reporter.pc = "wait"
    /\ ctx = "canceled"
    /\ reporter' = [reporter EXCEPT !.pc = "stopped"]
    /\ UNCHANGED <<mgr, err, workerSem, wg, ctx, tr, worker, queue, collector, mu, mgrFrame>>

\* reportProgress: case <-ticker.C: gm.mu.RLock()
ReporterRLock ==
    /\ reporter.pc = "wait"
    /\ ~mu.writer
    /\ mu' = [mu EXCEPT !.readers = @ + 1]
    /\ reporter' = [reporter EXCEPT !.pc = "rlocked"]
    /\ UNCHANGED <<mgr, err, workerSem, wg, ctx, tr, worker, queue, collector, mgrFrame>>

\* progress := gm.tournament.GetProgress()
ReporterGetProgress ==
    /\ reporter.pc = "rlocked"
    /\ reporter' = [reporter EXCEPT !.pc = "progress", !.progress = GetProgress(tr)]
    /\ UNCHANGED <<mgr, err, workerSem, wg, ctx, tr, worker, queue, collector, mu, mgrFrame>>

\* completed := gm.tournament.CompletedGames; total := gm.tournament.TotalGames
ReporterReadCounts ==
    /\ reporter.pc = "progress"
    /\ reporter' = [reporter EXCEPT !.pc = "read",
                                    !.completed = tr.CompletedGames,
                                    !.total = tr.TotalGames]
    /\ UNCHANGED <<mgr, err, workerSem, wg, ctx, tr, worker, queue, collector, mu, mgrFrame>>

\* gm.mu.RUnlock(), the log line, and back to the select
ReporterRUnlock ==
    /\ reporter.pc = "read"
    /\ mu' = [mu EXCEPT !.readers = @ - 1]
    /\ reporter' = [reporter EXCEPT !.pc = "wait"]
    /\ UNCHANGED <<mgr, err, workerSem, wg, ctx, tr, worker, queue, collector, mgrFrame>>

\* ------------------------------------------- the tables of one process
ProvIdle ==
    /\ rateLimited = [flag |-> FALSE, resets |-> 0, by |-> 0]
    /\ initialTotalChips = [set |-> FALSE, value |-> 0, by |-> 0]
    /\ calls = <<>>

\* the tables runParallelGames created, each inside Start
ProvInit(maxTables) ==
    /\ Games \in 2..maxTables
    /\ rateLimited = [flag |-> FALSE, resets |-> 0, by |-> 0]
    /\ initialTotalChips = [set |-> FALSE, value |-> 0, by |-> 0]
    /\ calls = [id \in 1..Games |->
                  [pc |-> "loop", decision |-> "", cause |-> "", touched |-> {}]]

provFrame == <<tableVars, tourVars, aggVars, mgrVars, fnVars>>

\* checkChipConservation of table id: the first call sets the baseline
checkChipConservation(id) ==
    IF initialTotalChips.set THEN initialTotalChips
    ELSE [set |-> TRUE, value |-> TotalChips, by |-> id]

\* advanceGame of table id calls GetAIDecision: "if rateLimited" returns
\* "fold" with an error, else the request is sent
CallProvider(id) ==
    /\ calls[id].pc = "loop"
    /\ IF rateLimited.flag
       THEN /\ calls' = [calls EXCEPT ![id] =
                            [pc |-> "loop", decision |-> "fold", cause |-> "flag",
                             touched |-> @.touched \cup {"rateLimited", "initialTotalChips"}]]
            /\ initialTotalChips' = checkChipConservation(id)
       ELSE /\ calls' = [calls EXCEPT ![id].pc = "inflight",
                                      ![id].touched = @ \cup {"rateLimited"}]
            /\ UNCHANGED initialTotalChips
    /\ UNCHANGED <<rateLimited, provFrame>>

\* the provider answers table id: 429 sets rateLimited and starts the reset
\* goroutine, and the seat folds; otherwise the seat's decision is applied;
\* then checkChipConservation
ProviderReply(id) ==
    /\ calls[id].pc = "inflight"
    /\ \E status \in IF rateLimited.resets < MaxResets THEN {200, 429} ELSE {200} :
          IF status = 429
          THEN /\ rateLimited' = [flag |-> TRUE, resets |-> rateLimited.resets + 1, by |-> id]
               /\ calls' = [calls EXCEPT ![id] =
                               [pc |-> "loop", decision |-> "fold", cause |-> "reply",
                                touched |-> @.touched \cup {"initialTotalChips"}]]
          ELSE /\ \E action \in {"fold", "call"} :
                     calls' = [calls EXCEPT ![id] =
                                  [pc |-> "loop", decision |-> action, cause |-> "provider",
                                   touched |-> @.touched \cup {"initialTotalChips"}]]
               /\ UNCHANGED rateLimited
    /\ initialTotalChips' = checkChipConservation(id)
    /\ UNCHANGED provFrame

\* go func() { time.Sleep(60 * time.Second); rateLimited = false }()
ResetRateLimit ==
    /\ rateLimited.resets > 0
    /\ rateLimited' = [rateLimited EXCEPT !.flag = FALSE, !.resets = @ - 1]
    /\ UNCHANGED <<initialTotalChips, calls, provFrame>>

\* ---------------------------------------------------------- specifications
\* one table, any decision
Init == TableInit /\ TourIdle /\ AggIdle /\ MgrIdle /\ ProvIdle /\ FnIdle

Next ==
    \/ AdvanceGame(Replies(Decisions), Decks, MaxHands)
    \/ Stop
    \/ StartReturn

Spec == Init /\ [][Next]_vars

\* the goroutine that runs Start is scheduled: once the for condition or the
\* stopChan case lets Start return, it returns
FairSpec == Spec /\ WF_vars(StartReturn)

\* one call of calculatePlayerRankings on the result of a table whose seats
\* ended with any stacks up to MaxFinalChips
RankInit ==
    /\ arg \in {GameResultOf(1, stacks) : stacks \in [1..NumPlayers -> 0..MaxFinalChips]}
    /\ out = <<>>

Rank ==
    /\ out = <<>>
    /\ out' = calculatePlayerRankings(arg)
    /\ UNCHANGED <<arg, tableVars, tourVars, aggVars, mgrVars, provVars>>

InitRank == TableInit /\ TourIdle /\ AggIdle /\ MgrIdle /\ ProvIdle /\ RankInit

NextRank == Rank

SpecRank == InitRank /\ [][NextRank]_vars

\* the position of a card in the deck before Shuffle
CardIndex(c) == c[2] * 13 + c[1] - 1

\* the cards of a set in deck order
RECURSIVE SeqOfCards(_)
SeqOfCards(S) ==
    IF S = {} THEN <<>>
    ELSE LET c == CHOOSE x \in S : \A y \in S : CardIndex(x) <= CardIndex(y)
         IN  <<c>> \o SeqOfCards(S \ {c})

\* the subsets of S with k elements
RECURSIVE KSubsets(_, _)
KSubsets(S, k) ==
    IF k = 0 THEN {{}}
    ELSE IF S = {} THEN {}
    ELSE LET x == CHOOSE y \in S : TRUE
         IN  KSubsets(S \ {x}, k) \cup {T \cup {x} : T \in KSubsets(S \ {x}, k - 1)}

\* The cards the 7-card pools are drawn from: 8, 9, 10 and K of spades,
\* clubs and hearts.
PoolCards == {<<v, s>> : v \in {8, 9, 10, 13}, s \in 0..2}

\* one call of NewPokerHand on two hole cards and five community cards
PoolInit ==
    /\ arg \in {SeqOfCards(S) : S \in KSubsets(PoolCards, 7)}
    /\ out = <<>>

\* ph.Score = ph.evaluateHand(), for one iteration order of the maps
Evaluate ==
    /\ out = <<>>
    /\ \E score \in evaluateHand(NewPokerHand(arg)) : out' = <<score>>
    /\ UNCHANGED <<arg, tableVars, tourVars, aggVars, mgrVars, provVars>>

InitPool == TableInit /\ TourIdle /\ AggIdle /\ MgrIdle /\ ProvIdle /\ PoolInit

NextPool == Evaluate

SpecPool == InitPool /\ [][NextPool]_vars

\* The cards the 5-card hands are drawn from: 2 3 4 5 6 10 J Q K A of spades
\* and 2 5 10 K A of clubs.
FiveCards ==
    {<<v, 0>> : v \in {2, 3, 4, 5, 6, 10, 11, 12, 13, 14}}
        \cup {<<v, 1>> : v \in {2, 5, 10, 13, 14}}

\* input orders of a hand: deck order, its reverse and a shuffle
Orders(S) ==
    LET s == SeqOfCards(S)
    IN  {s, Reverse(s), <<s[3], s[1], s[5], s[2], s[4]>>}

\* one call of NewPokerHand on five distinct cards
FiveInit ==
    /\ arg \in UNION {Orders(S) : S \in KSubsets(FiveCards, 5)}
    /\ out = <<>>

InitFive == TableInit /\ TourIdle /\ AggIdle /\ MgrIdle /\ ProvIdle /\ FiveInit

NextFive == Evaluate

SpecFive == InitFive /\ [][NextFive]_vars

\* The cards the pairs of 5-card hands are drawn from: 2 3 4 5 6 A of spades
\* and 5 6 A of clubs.
PairCards == {<<v, 0>> : v \in {2, 3, 4, 5, 6, 14}} \cup {<<v, 1>> : v \in {5, 6, 14}}

\* one call of CompareHands on two hands of five cards
PairInit ==
    /\ arg \in {<<SeqOfCards(S), SeqOfCards(T)>> :
                    S \in KSubsets(PairCards, 5), T \in KSubsets(PairCards, 5)}
    /\ out = <<>>

\* CompareHands(hands): out is the order, best first, as indices of hands
Compare ==
    /\ out = <<>>
    /\ \E a \in evaluateHand(NewPokerHand(arg[1])),
          b \in evaluateHand(NewPokerHand(arg[2])) :
          out' = CompareHands(<<a, b>>)
    /\ UNCHANGED <<arg, tableVars, tourVars, aggVars, mgrVars, provVars>>

InitPair == TableInit /\ TourIdle /\ AggIdle /\ MgrIdle /\ ProvIdle /\ PairInit

NextPair == Compare

SpecPair == InitPair /\ [][NextPair]_vars

\* one table that is never stopped, any decision
NextH ==
    \/ AdvanceGame(Replies(Decisions), Decks, MaxHands)
    \/ StartReturn

SpecH == Init /\ [][NextH]_vars

\* one table that is never stopped, with a provider that answers check,
\* call or raise, or fails
Answers == Decisions \ {<<"fold", 0>>}

NextE ==
    \/ AdvanceGame(Replies(Answers) \cup {ErrorReply}, Decks, MaxHands)
    \/ StartReturn

SpecE == Init /\ [][NextE]_vars

\* one table that is never stopped, decisions fold or call only
FoldCall == {<<"fold", 0>>, <<"call", 0>>}

NextFC ==
    \/ AdvanceGame(Replies(FoldCall), {DeckTie}, MaxHandsFC)
    \/ StartReturn

SpecFC == Init /\ [][NextFC]_vars

\* one tournament of 2..MaxGames tables
InitT == TableInit /\ TourInit(MaxGames) /\ AggIdle /\ MgrIdle /\ ProvIdle /\ FnIdle

NextT ==
    \/ Launch
    \/ BeginCollect
    \/ Acquire
    \/ CheckCtx
    \/ BeginCall
    \/ EndCall
    \/ Finish
    \/ CloseResults
    \/ Collect
    \/ CollectDone
    \/ StopTournament

SpecT == InitT /\ [][NextT]_vars

\* one aggregation of 1..MaxAggGames results, in every arrival order
InitAgg ==
    TableInit /\ TourIdle /\ AggInit(MaxAggGames) /\ MgrIdle /\ ProvIdle /\ FnIdle

NextAgg == AddResult

SpecAgg == InitAgg /\ [][NextAgg]_vars

\* one tournament of 2..MaxTables tables told apart, with its collector and
\* its progress reporter
InitM == TableInit /\ MgrInit(MaxTables) /\ ProvIdle /\ FnIdle

NextM ==
    \/ \E id \in DOMAIN worker : WorkerAcquire(id)
    \/ \E id \in DOMAIN worker : WorkerCheckCtx(id)
    \/ \E id \in DOMAIN worker : WorkerFinish(id)
    \/ CloseChan
    \/ Receive
    \/ Lock
    \/ Merge
    \/ Unlock
    \/ ReturnDone
    \/ Cancel
    \/ ReporterExit
    \/ ReporterRLock
    \/ ReporterGetProgress
    \/ ReporterReadCounts
    \/ ReporterRUnlock

SpecM == InitM /\ [][NextM]_vars

\* the collector has gone through gm.tournament.AddGameResult(result): the
\* steps of Merge, named by what they do to the collector alone
Merged == collector.pc = "locked" /\ collector' = [collector EXCEPT !.pc = "merged"]

\* The scheduler runs every goroutine that can take a step, and every table
\* reaches its terminal state, so its Start returns (WorkerFinish).  A
\* pending gm.mu.Lock() keeps new readers out (sync.RWMutex), so the
\* collector gets the lock although the progress reader takes it again and
\* again; a progress read that has the read lock goes on to release it.
\* Nothing makes GameManager.Stop or a tick of the progress ticker happen.
FairSpecM ==
    /\ SpecM
    /\ \A id \in 1..MaxTables :
          /\ WF_vars(id \in DOMAIN worker /\ WorkerAcquire(id))
          /\ WF_vars(id \in DOMAIN worker /\ WorkerCheckCtx(id))
          /\ WF_vars(id \in DOMAIN worker /\ WorkerFinish(id))
    /\ WF_vars(CloseChan) /\ WF_vars(Receive) /\ SF_vars(Lock)
    /\ WF_collector(Merged) /\ WF_vars(Unlock) /\ WF_vars(ReturnDone)
    /\ WF_vars(ReporterGetProgress) /\ WF_vars(ReporterReadCounts)
    /\ WF_vars(ReporterRUnlock)

\* the 2..MaxTables tables of one process and their decision provider
InitP ==
    /\ TableInit /\ AggIdle /\ MgrIdle /\ ProvInit(MaxTables) /\ FnIdle
    /\ mgr = "collect" /\ launched = Games /\ at = [p \in Points |-> 0]
    /\ workerSem = 0 /\ wg = Games /\ ctx = "active"
    /\ resultsChan = [len |-> 0, closed |-> FALSE]
    /\ tournament = [TotalGames |-> Games, CompletedGames |-> 0]
    /\ err = None

NextP ==
    \/ \E id \in DOMAIN calls : CallProvider(id)
    \/ \E id \in DOMAIN calls : ProviderReply(id)
    \/ ResetRateLimit

SpecP == InitP /\ [][NextP]_vars

\* The scheduler runs every goroutine that can take a step, and a provider
\* call returns (it carries a 30 s timeout).  Whether a table ever ends is
\* left to its decisions: no fairness makes EndCall choose "ended".
FairSpecT ==
    /\ SpecT
    /\ WF_vars(Launch) /\ WF_vars(BeginCollect) /\ WF_vars(Acquire) /\ WF_vars(CheckCtx)
    /\ WF_vars(BeginCall) /\ WF_vars(EndCall) /\ WF_vars(Finish)
    /\ WF_vars(CloseResults) /\ WF_vars(Collect) /\ WF_vars(CollectDone)

\* ------------------------------------------------------------------ claims
\* what the last advanceGame step settled
Settled == lastSettle.kind # "none"

\* the seats that had neither folded nor been eliminated when endHand was called
InHandAtSettle ==
    {p \in Seats : ~contains(lastSettle.pre.FoldedPlayers, p)
                   /\ ~contains(lastSettle.pre.EliminatedPlayers, p)}

\* the chips the settlement added to a seat's stack
Gain(p) == State.Players[p].Chips - lastSettle.pre.Players[p].Chips

\* the current seat is asked for a decision by the next advanceGame step
TurnToAct ==
    /\ ~State.GameEnded
    /\ ~atHandStart(State)
    /\ ~contains(State.FoldedPlayers, State.CurrentPlayer)
    /\ ~contains(State.EliminatedPlayers, State.CurrentPlayer)

\* claim C1: in every state between two steps of the hand loop the seats'
\* stacks plus the pot add up to the table's initial total, 4 x 20 chips:
\* after every advanceGame step (decision applied, round advanced, hand
\* settled), after the blinds of the next hand are posted, and after the
\* next decision is applied, whatever the decision
C1_ChipConservation ==
    /\ totalChips(State) = TotalChips
    /\ (~State.GameEnded /\ atHandStart(State) /\ Len(getActivePlayers(State)) >= 2)
       => \A deck \in Decks : totalChips(newHand(Game, deck).State) = TotalChips
    /\ TurnToAct
       => \A decision \in Decisions :
             totalChips(processDecision(Game, decision, State.CurrentPlayer).State)
                 = TotalChips

\* a second hand has been settled by splitting an odd pot between two seats
C1_Witness ==
    /\ lastSettle.kind = "split"
    /\ lastSettle.pre.HandNumber > 1
    /\ lastSettle.pre.Pot % 2 = 1
    /\ Cardinality({p \in Seats : Gain(p) > 0}) = 2

\* claim C2: when a hand ends because exactly one non-eliminated seat has not
\* folded, endHand adds the whole pot to that seat's stack and leaves every
\* other seat's stack as it was, however many seats were eliminated before
C2_LastSeatTakesPot ==
    (Settled /\ Cardinality(InHandAtSettle) = 1)
    => \A p \in Seats :
          Gain(p) = IF p \in InHandAtSettle THEN lastSettle.pre.Pot ELSE 0

\* claim C3: whenever the table is terminal exactly one seat has a positive
\* stack, that seat is the Winner of the GameResult and FinalChips is the
\* table's total
C3_TerminalSingleStack ==
    State.GameEnded
    => /\ result # NilResult
       /\ {p \in Seats : State.Players[p].Chips > 0} = {result[1].Winner}
       /\ result[1].FinalChips = TotalChips

\* claim C4: once at most one non-eliminated seat is left (one or none) the
\* table is declared ended and has a GameResult, so Start never loops with
\* fewer than two non-eliminated seats and GameEnded false
C4_EndedWhenOneOrNoneLeft ==
    Len(getActivePlayers(State)) <= 1 => (State.GameEnded /\ result # NilResult)

\* claim C5, in the form a finite run refutes: with decisions restricted to
\* fold and call, a table that has not ended is never in a state that
\* advanceGame leaves as it is whatever the decision (from such a state Start
\* loops forever and the terminal state is never reached)
C5_NeverStalls ==
    (pc = "running" /\ ~State.GameEnded)
    => \E decision \in FoldCall :
          \E g2 \in advanceGame(Game, decision, {DeckTie}) : g2.State # State

\* the seats of the showdown's hands, in the order of lastSettle.scores
ShowdownSeats ==
    SelectSeq(SeatSeq, LAMBDA p : ~contains(lastSettle.pre.FoldedPlayers, p))

\* the seats whose score no other hand of the showdown beats
BestSeats ==
    {ShowdownSeats[i] : i \in {i \in 1..Len(ShowdownSeats) :
        \A j \in 1..Len(ShowdownSeats) :
            ~handLess(lastSettle.scores[j], lastSettle.scores[i])}}

\* claim C6: at a showdown the pot goes only to seats whose HandScore is
\* maximal among the hands compared, and seats that tie for the best hand
\* split it evenly (shares differ by at most the odd chips)
C6_ShowdownPaysBestEvenly ==
    lastSettle.kind = "showdown"
    => \A p \in Seats :
          IF p \in BestSeats
          THEN Gain(p) \in {lastSettle.pre.Pot \div Cardinality(BestSeats),
                            (lastSettle.pre.Pot \div Cardinality(BestSeats)) + 1}
          ELSE Gain(p) = 0

\* claim C7: at no time are more than min(N, 10) tables inside Start()
C7_BoundedConcurrency == InStart <= min(Games, PoolCeiling)

\* more tables than the ceiling: the pool is full and a worker waits for a slot
C7_Witness ==
    /\ Games > PoolCeiling
    /\ InStart = PoolCeiling
    /\ at["acquire"] > 0

\* claim C8: after GameManager.Stop() no running table asks the provider for
\* another decision (a call in flight may finish)
C8_NoCallAfterStop == [][ctx = "canceled" => at'["call"] <= at["call"]]_vars

\* claim C9: once the tournament is cancelled runParallelGames returns, also
\* when a table in flight never ends
C9_ReturnsAfterCancel == (ctx = "canceled") ~> (mgr = "returned")

\* claim C10: a return that follows a cancellation with fewer recorded
\* results than tables carries a non-nil error, and a return after all tables
\* completed carries a nil error
C10_ErrorIffCancelledPartial ==
    mgr = "returned"
    => /\ (ctx = "canceled" /\ tournament.CompletedGames < Games) => err # None
       /\ tournament.CompletedGames = Games => err = None

\* claim C11: after Stop() the Start loop runs no further advanceGame step
\* (no provider call, no change of the table), Start returns, and what it
\* returns is nil unless the table is terminal
C11_StopEndsLoopWithNil ==
    /\ [][stopChan = "closed" => State' = State]_vars
    /\ []((pc = "returned" /\ ~State.GameEnded) => ret = NilResult)
    /\ (stopChan = "closed") ~> (pc = "returned")

\* a table stopped in the middle of a hand has returned nil
C11_Witness ==
    /\ pc = "returned"
    /\ stopChan = "closed"
    /\ ~State.GameEnded
    /\ State.Pot > 0
    /\ ret = NilResult

\* the outcomes of feeding the results 1..n to a fresh aggregation in the
\* order of their GameIDs
RECURSIVE InGameIDOrder(_, _)
InGameIDOrder(ts, id) ==
    IF id > Len(arrivals) THEN ts
    ELSE InGameIDOrder(
            UNION {AddGameResult(t, populate(GameResultOf(id, arrivals[id]))) : t \in ts},
            id + 1)

\* every result has been merged
AggComplete == tr.TotalGames > 0 /\ IsComplete(tr)

\* claim C12: whatever the order in which the same GameResults arrive, the
\* final PlayerStats counters and the OverallWinner are those of the
\* aggregation in GameID order
C12_OrderIndependent ==
    AggComplete
    => \A ref \in InGameIDOrder({NewTournamentResult(tr.TotalGames)}, 1) :
          /\ ref.PlayerStats = tr.PlayerStats
          /\ ref.OverallWinner = tr.OverallWinner

\* the players whose Wins count no other player's exceeds
MostWins(t) ==
    {n \in DOMAIN t.PlayerStats :
        \A m \in DOMAIN t.PlayerStats : t.PlayerStats[m].Wins <= t.PlayerStats[n].Wins}

\* the first of them to have entered PlayerStats
FirstSeen(t, names) ==
    t.seen[SetMin({i \in 1..Len(t.seen) : t.seen[i] \in names})]

\* claim C13: when the tournament is complete OverallWinner is a player with
\* the most wins, and among several such players the first seen
C13_WinnerMostWinsFirstSeen ==
    AggComplete
    => /\ tr.OverallWinner \in MostWins(tr)
       /\ tr.OverallWinner = FirstSeen(tr, MostWins(tr))

\* claim C14: after every AddGameResult, also while CompletedGames <
\* TotalGames, OverallWinner names a player with the most wins so far
C14_WinnerAfterEveryUpdate ==
    tr.CompletedGames >= 1 => tr.OverallWinner \in MostWins(tr)

\* claim C15: the tournament records at most one result per table: the
\* number of recorded GameResults is CompletedGames, no GameID is recorded
\* twice, no table has more than one result recorded or on its way, and
\* CompletedGames <= TotalGames
C15_OneResultPerTable ==
    /\ tr.CompletedGames = Len(tr.GameResults)
    /\ \A i, j \in 1..Len(tr.GameResults) :
          i # j => tr.GameResults[i] # tr.GameResults[j]
    /\ \A id \in DOMAIN worker :
          Cardinality({i \in 1..Len(tr.GameResults) : tr.GameResults[i] = id})
          + Cardinality({i \in 1..Len(queue.items) : queue.items[i] = id})
          + (IF collector.pc \in {"lock", "locked"} /\ collector.result = id THEN 1 ELSE 0)
          <= 1
    /\ tr.CompletedGames <= tr.TotalGames

\* every table's result has been recorded, in an order other than by GameID
C15_Witness ==
    /\ Games = MaxTables
    /\ tr.CompletedGames = Games
    /\ tr.GameResults[1] # 1
    /\ mgr = "returned"

\* the collector is between gm.mu.Lock() and gm.mu.Unlock()
Merging == collector.pc \in {"locked", "merged"}

\* reportProgress is between gm.mu.RLock() and gm.mu.RUnlock()
Reading == reporter.pc \in {"rlocked", "progress", "read"}

\* claim C16: the progress read and the collector's merge exclude each
\* other, and what one progress read has seen is one state of the
\* TournamentResult: the progress is that of the completed count it read
C16_ProgressReadExcludesMerge ==
    /\ ~(Merging /\ Reading)
    /\ reporter.pc = "read"
       => reporter.progress = GetProgress([TotalGames |-> reporter.total,
                                           CompletedGames |-> reporter.completed])

\* a progress read has finished while the collector waits for the lock with
\* a result in hand, after an earlier merge
C16_Witness ==
    /\ reporter.pc = "read"
    /\ reporter.completed >= 1
    /\ collector.pc = "lock"

\* claim C17: the tables of a tournament share nothing: no package variable
\* is touched by two tables, and a table is made to fold by the rate limit
\* only after a rate-limited reply to one of its own requests
C17_TablesIndependent ==
    /\ \A a, b \in DOMAIN calls :
          a # b => calls[a].touched \cap calls[b].touched = {}
    /\ \A id \in DOMAIN calls :
          calls[id].cause = "flag" => rateLimited.by = id

DecisionPoints ==
    LET gs == IF State.GameEnded THEN {}
              ELSE IF ~atHandStart(State) THEN {Game}
              ELSE IF Len(getActivePlayers(State)) >= 2
                   THEN {newHand(Game, deck) : deck \in Decks}
                   ELSE {}
    IN  {g \in gs : /\ ~contains(g.State.FoldedPlayers, g.State.CurrentPlayer)
                    /\ ~contains(g.State.EliminatedPlayers, g.State.CurrentPlayer)}

\* what the acting seat of table g owes to match the current bet
AmountToCall(g) ==
    LET p == g.State.CurrentPlayer
    IN  g.State.CurrentBet
            - (IF p \in DOMAIN g.State.PlayerBets THEN g.State.PlayerBets[p] ELSE 0)

\* the stack of the acting seat of table g
ActingChips(g) == g.State.Players[g.State.CurrentPlayer].Chips

\* table state s with seat p folded and nothing else changed
Folded(s, p) == [s EXCEPT !.FoldedPlayers = Append(@, p)]

\* table state s after seat p has paid n chips into the pot and its round
\* contribution has become b, nothing else changed
Paid(s, p, n, b) ==
    [s EXCEPT !.Pot = @ + n,
              !.Players[p].Chips = @ - n,
              !.PlayerBets = [q \in (DOMAIN @) \cup {p} |-> IF q = p THEN b ELSE @[q]]]

\* claim C19: a call by a seat whose stack covers the amount-to-call moves
\* exactly the amount-to-call from its stack to the pot (the pot does not
\* shrink, the stack does not grow) and sets its round contribution to the
\* current bet, leaving the rest of the table as it was; a call by a seat
\* whose stack is smaller than the amount-to-call folds the seat and moves
\* no chips
C19_CallPaysOrFolds ==
    \A g \in DecisionPoints :
        LET p == g.State.CurrentPlayer
            post == processDecision(g, <<"call", 0>>, p).State
        IN  IF ActingChips(g) >= AmountToCall(g)
            THEN /\ post = Paid(g.State, p, AmountToCall(g), g.State.CurrentBet)
                 /\ post.Pot >= g.State.Pot
                 /\ post.Players[p].Chips <= ActingChips(g)
            ELSE post = Folded(g.State, p)

\* the amounts a raise decision may ask for: below, at and above the
\* minimum raise of hand 1, and beyond what any stack can pay
RaiseRequests == {-5, 0, 15, 20, 25, 30, 50, 90}

\* the total bet a raise to r targets at table g
RaiseTarget(g, r) ==
    IF r > g.State.CurrentBet + MinRaise THEN r ELSE g.State.CurrentBet + MinRaise

\* claim C20: a raise asking for r targets the total bet
\* T = max(r, CurrentBet + MinRaise). If the seat's stack covers T minus its
\* round contribution, CurrentBet becomes T, which is at least MinRaise
\* above the old bet, the contribution becomes T and exactly the difference
\* moves from the stack to the pot; otherwise the raise acts as a call if
\* the stack covers the amount-to-call, else as a fold
C20_RaiseOrDowngrade ==
    \A g \in DecisionPoints : \A r \in RaiseRequests :
        LET s == g.State
            p == s.CurrentPlayer
            T == RaiseTarget(g, r)
            owed == T - PlayerBet(s, p)
            post == processDecision(g, <<"raise", r>>, p).State
        IN  IF ActingChips(g) >= owed
            THEN /\ post = [Paid(s, p, owed, T) EXCEPT
                                !.CurrentBet = T,
                                !.LastRaiseAmount = T - s.CurrentBet]
                 /\ post.CurrentBet >= s.CurrentBet + MinRaise
                 /\ post.CurrentBet > s.CurrentBet
                 /\ PlayerBet(post, p) = T
                 /\ owed > 0
            ELSE IF ActingChips(g) >= AmountToCall(g)
            THEN post = Paid(s, p, AmountToCall(g), s.CurrentBet)
            ELSE post = Folded(s, p)

\* a raise to 30, above the minimum, has been paid: the current bet is 30,
\* some seat's round contribution is 30, and the hand goes on
C20_Witness ==
    /\ ~State.GameEnded
    /\ lastSettle.kind = "none"
    /\ State.CurrentBet = 30
    /\ State.LastRaiseAmount >= MinRaise
    /\ \E p \in Seats : PlayerBet(State, p) = 30

\* claim C21: a check by a seat that owes nothing changes no stack, pot,
\* contribution or folded set (the table is left as it was); a check by a
\* seat that owes chips acts as a call when the stack covers the
\* amount-to-call and as a fold when it does not
C21_CheckOrDowngrade ==
    \A g \in DecisionPoints :
        LET s == g.State
            p == s.CurrentPlayer
            post == processDecision(g, <<"check", 0>>, p).State
        IN  /\ AmountToCall(g) = 0 => post = s
            /\ AmountToCall(g) > 0
               => post = IF ActingChips(g) >= AmountToCall(g)
                         THEN Paid(s, p, AmountToCall(g), s.CurrentBet)
                         ELSE Folded(s, p)

\* after the flop a seat with chips left that owes nothing is to act: its
\* check is legal and leaves the table as it was
C21_Witness ==
    /\ TurnToAct
    /\ State.Round # "preflop"
    /\ State.Pot > 0
    /\ ActingChips(Game) > 0
    /\ AmountToCall(Game) = 0
    /\ processDecision(Game, <<"check", 0>>, State.CurrentPlayer).State = State

\* a hand starts at the next advanceGame step: the table has not ended, no
\* community cards and no bets are out, and two or more seats are left
HandStarts ==
    /\ ~State.GameEnded
    /\ atHandStart(State)
    /\ Len(getActivePlayers(State)) >= 2

\* the first non-eliminated seat after seat p in seat order, wrapping
NextActive(s, p) ==
    LET d == CHOOSE i \in 1..NumPlayers :
                /\ ~contains(s.EliminatedPlayers, (p + i) % NumPlayers)
                /\ \A j \in 1..(i - 1) :
                      contains(s.EliminatedPlayers, (p + j) % NumPlayers)
    IN  (p + d) % NumPlayers

\* claim C22: at every hand start the small and the big blind are posted by
\* the first and the second non-eliminated seat after the dealer, wrapping
\* past eliminated seats; the two are distinct; each pays the smaller of the
\* blind and its stack into the pot and no other stack changes; CurrentBet
\* is what the big blind paid; the first to act is the next non-eliminated
\* seat after the big blind
C22_BlindsAfterDealer ==
    HandStarts
    => \A deck \in Decks :
          LET post == newHand(Game, deck).State
              sb == NextActive(post, post.DealerPosition)
              bb == NextActive(post, sb)
              sbPaid == IF State.Players[sb].Chips < SmallBlind
                        THEN State.Players[sb].Chips ELSE SmallBlind
              bbPaid == IF State.Players[bb].Chips < BigBlind
                        THEN State.Players[bb].Chips ELSE BigBlind
          IN  /\ sb # bb
              /\ ~contains(post.EliminatedPlayers, post.DealerPosition)
              /\ \A p \in Seats :
                    post.Players[p].Chips =
                        State.Players[p].Chips
                            - (IF p = sb THEN sbPaid ELSE IF p = bb THEN bbPaid ELSE 0)
              /\ post.Pot = State.Pot + sbPaid + bbPaid
              /\ DOMAIN post.PlayerBets = {sb, bb}
              /\ post.PlayerBets[sb] = sbPaid
              /\ post.PlayerBets[bb] = bbPaid
              /\ post.CurrentBet = bbPaid
              /\ post.CurrentPlayer = NextActive(post, bb)

\* a later hand starts with an eliminated seat between the dealer and the
\* blinds, and the big blind seat short of the big blind
C22_Witness ==
    /\ HandStarts
    /\ State.HandNumber > 1
    /\ contains(State.EliminatedPlayers, (State.DealerPosition + 1) % NumPlayers)
    /\ \E deck \in Decks :
          LET post == newHand(Game, deck).State
          IN  /\ post.CurrentBet < BigBlind
              /\ post.Pot = SmallBlind + post.CurrentBet

\* the tables at which advanceGame goes on from "currentPlayer := ...": the
\* table as it stands, or the table with the new hand dealt
TurnPoints ==
    IF State.GameEnded THEN {}
    ELSE IF ~atHandStart(State) THEN {Game}
    ELSE IF Len(getActivePlayers(State)) >= 2
         THEN {newHand(Game, deck) : deck \in Decks}
         ELSE {}

\* table g once the decision of the seat on turn is applied (a folded or
\* eliminated seat is skipped)
AfterDecision(g, decision) ==
    IF /\ ~contains(g.State.FoldedPlayers, g.State.CurrentPlayer)
       /\ ~contains(g.State.EliminatedPlayers, g.State.CurrentPlayer)
    THEN processDecision(g, decision, g.State.CurrentPlayer).State
    ELSE g.State

\* the non-eliminated seats of s that have not folded
InHand(s) ==
    {q \in Seats : ~contains(s.EliminatedPlayers, q) /\ ~contains(s.FoldedPlayers, q)}

\* the round contribution of seat q in s
Contribution(s, q) == IF q \in DOMAIN s.PlayerBets THEN s.PlayerBets[q] ELSE 0

\* every seat in the hand has matched the current bet or is all-in
Matched(s) ==
    \A q \in InHand(s) : Contribution(s, q) >= s.CurrentBet \/ s.Players[q].Chips = 0

\* claim C23: with two or more seats in the hand, a step deals the next
\* street only if, in the state the decision has left, every non-eliminated,
\* non-folded seat has a round contribution of at least CurrentBet or a
\* stack of 0; and a hand with two or more seats in it was settled (after
\* the river) only in such a state
C23_AdvanceOnlyWhenMatched ==
    /\ \A g \in TurnPoints : \A d \in Decisions :
          LET mid == AfterDecision(g, d)
          IN  (Cardinality(InHand(mid)) > 1 /\ mid.Round # "river")
              => \A g2 \in playTurn(g, d) :
                    g2.State.Round # mid.Round => Matched(mid)
    /\ (lastSettle.kind # "none" /\ Cardinality(InHand(lastSettle.pre)) > 1)
       => /\ lastSettle.pre.Round = "river"
          /\ Matched(lastSettle.pre)

\* a call completes a round in which another seat is all-in for less than
\* the current bet: the street is dealt although that seat has not matched
C23_Witness ==
    /\ TurnToAct
    /\ State.Round # "river"
    /\ LET mid == AfterDecision(Game, <<"call", 0>>)
       IN  /\ Cardinality(InHand(mid)) > 1
           /\ \E q \in InHand(mid) :
                 Contribution(mid, q) < mid.CurrentBet /\ mid.Players[q].Chips = 0
           /\ \E g2 \in playTurn(Game, <<"call", 0>>) : g2.State.Round # mid.Round

\* the street that follows a street
NextStreet(round) ==
    CASE round = "preflop" -> "flop"
      [] round = "flop"    -> "turn"
      [] round = "turn"    -> "river"
      [] OTHER             -> "none"

\* the number of community cards a street shows
StreetCards(round) ==
    CASE round = "preflop" -> 0
      [] round = "flop"    -> 3
      [] round = "turn"    -> 4
      [] round = "river"   -> 5
      [] OTHER             -> -1

\* claim C24: within a hand the round tag stays or moves to the next street
\* (preflop, flop, turn, river), never skipping one or going back; it
\* returns to preflop only through a settlement, which starts the next
\* hand; and in every reachable state the number of community cards is the
\* one of the tag: 0, 3, 4, 5
C24_StreetsInOrder ==
    /\ [][ /\ State'.HandNumber = State.HandNumber
              => State'.Round \in {State.Round, NextStreet(State.Round)}
           /\ State'.HandNumber # State.HandNumber
              => /\ State'.HandNumber = State.HandNumber + 1
                 /\ State'.Round = "preflop"
                 /\ lastSettle'.kind # "none" ]_vars
    /\ [](Len(State.CommunityCards) = StreetCards(State.Round))

\* the second hand has reached the river with five community cards
C24_Witness ==
    /\ State.HandNumber = 2
    /\ State.Round = "river"
    /\ Len(State.CommunityCards) = 5
    /\ ~State.GameEnded

\* claim C25: after every hand settlement a seat is in the eliminated set
\* if and only if its stack is 0, and in every state an eliminated seat
\* holds no chips (once eliminated, a seat never holds chips again)
C25_EliminatedIffBroke ==
    /\ Settled
       => \A p \in Seats :
             contains(State.EliminatedPlayers, p) <=> State.Players[p].Chips = 0
    /\ \A p \in Seats :
          contains(State.EliminatedPlayers, p) => State.Players[p].Chips = 0

\* the seat of the player called name
SeatOfName(name) == CHOOSE i \in 1..NumPlayers : models_list[i] = name

\* claim C26: calculatePlayerRankings returns every seat of the result
\* once, with the stack it ended with, ordered by chips descending, seats
\* with equal chips in seat order, and ranked 1..n in that order
C26_RankingSortedStable ==
    out # <<>>
    => /\ Len(out) = Len(arg.AllPlayers)
       /\ \A i \in 1..Len(out) : out[i].Rank = i
       /\ \A k \in 1..Len(arg.AllPlayers) :
             Cardinality({i \in 1..Len(out) : out[i].Player = arg.AllPlayers[k]}) = 1
       /\ \A i, j \in 1..Len(out) :
             i < j => /\ out[i].Player.Chips >= out[j].Player.Chips
                      /\ out[i].Player.Chips = out[j].Player.Chips
                         => SeatOfName(out[i].Player.Name) < SeatOfName(out[j].Player.Name)

\* a result with two pairs of equal stacks, given out of order, was ranked
C26_Witness ==
    /\ out # <<>>
    /\ arg.AllPlayers[1].Chips = arg.AllPlayers[3].Chips
    /\ arg.AllPlayers[2].Chips = arg.AllPlayers[4].Chips
    /\ arg.AllPlayers[1].Chips < arg.AllPlayers[2].Chips
    /\ out[1].Player.Name = models_list[2]
    /\ out[3].Player.Name = models_list[1]

\* the scores NewPokerHand can give to a set of cards
ScoresOf(S) == evaluateHand(NewPokerHand(SeqOfCards(S)))

\* two scores that the hand comparison does not tell apart
SameStrength(a, b) == ~handLess(a, b) /\ ~handLess(b, a)

\* claim C27: the HandScore NewPokerHand gives to a pool of 7 cards is the
\* score of the best of the pool's 21 five-card hands: it has the category
\* of one of them and compares equal to it, and no five-card hand of the
\* pool compares higher
C27_BestFiveOfSeven ==
    out # <<>>
    => LET fives == UNION {ScoresOf(S) : S \in KSubsets(Range(arg), 5)}
       IN  /\ \E five \in fives :
                 five.Rank = out[1].Rank /\ SameStrength(five, out[1])
           /\ \A five \in fives : ~handLess(five, out[1])

\* the number of cards of a hand that have the value v
CardsOfValue(cards, v) == Cardinality({i \in 1..Len(cards) : cards[i][1] = v})

\* the count that decides a category built on equal values: four for four
\* of a kind, three for a full house and three of a kind, two for one pair
DecidingCount(rank) ==
    CASE rank = 8 -> 4
      [] rank = 7 -> 3
      [] rank = 4 -> 3
      [] rank = 2 -> 2
      [] OTHER -> 0

\* claim C29: evaluating a pool of cards yields one HandScore whatever the
\* order the value counts are visited in, and in the categories decided by a
\* count (four of a kind, full house, three of a kind, one pair) the first
\* element of the Value sequence is the highest card value that has the
\* deciding count
C29_DeterministicHighestFirst ==
    out # <<>>
    => /\ \A score \in evaluateHand(NewPokerHand(arg)) : score = out[1]
       /\ LET n == DecidingCount(out[1].Rank)
          IN  n > 0
              => out[1].Value[1]
                 = SetMax({v \in CardValues : CardsOfValue(arg, v) = n})

\* the distinct card values of a hand
ValuesOf(cards) == {cards[i][1] : i \in 1..Len(cards)}

\* A-2-3-4-5
IsWheel(cards) == ValuesOf(cards) = {14, 2, 3, 4, 5}

StandardFlush(cards) == \A i \in 1..Len(cards) : cards[i][2] = cards[1][2]

StandardStraight(cards) ==
    /\ Cardinality(ValuesOf(cards)) = 5
    /\ \/ SetMax(ValuesOf(cards)) - SetMin(ValuesOf(cards)) = 4
       \/ IsWheel(cards)

\* how many values of the hand are held by exactly n cards
ValuesHeld(cards, n) ==
    Cardinality({v \in ValuesOf(cards) : CardsOfValue(cards, v) = n})

\* the category of five cards in standard poker, as a HAND_RANKINGS number
StandardCategory(cards) ==
    IF StandardFlush(cards) /\ StandardStraight(cards)
       /\ ValuesOf(cards) = {10, 11, 12, 13, 14} THEN 10
    ELSE IF StandardFlush(cards) /\ StandardStraight(cards) THEN 9
    ELSE IF ValuesHeld(cards, 4) = 1 THEN 8
    ELSE IF ValuesHeld(cards, 3) = 1 /\ ValuesHeld(cards, 2) = 1 THEN 7
    ELSE IF StandardFlush(cards) THEN 6
    ELSE IF StandardStraight(cards) THEN 5
    ELSE IF ValuesHeld(cards, 3) = 1 THEN 4
    ELSE IF ValuesHeld(cards, 2) = 2 THEN 3
    ELSE IF ValuesHeld(cards, 2) = 1 THEN 2
    ELSE 1

\* claim C30: the category NewPokerHand gives to five distinct cards, in
\* whatever order they are passed, is their standard poker category
C30_StandardCategory ==
    out # <<>> => out[1].Rank = StandardCategory(arg)

\* the values of a hand ordered by the number of cards holding them, then by
\* value, highest first
RECURSIVE ByCountThenValue(_, _)
ByCountThenValue(V, cards) ==
    IF V = {} THEN <<>>
    ELSE LET key(v) == CardsOfValue(cards, v) * 15 + v
             top == CHOOSE v \in V : \A w \in V : key(w) <= key(v)
         IN  <<top>> \o ByCountThenValue(V \ {top}, cards)

\* what decides between two hands of one category in standard poker: the top
\* card of a straight (5 for the wheel), otherwise the values by count
StandardTiebreak(cards) ==
    IF StandardStraight(cards)
    THEN <<IF IsWheel(cards) THEN 5 ELSE SetMax(ValuesOf(cards))>>
    ELSE ByCountThenValue(ValuesOf(cards), cards)

StandardStrength(cards) == <<StandardCategory(cards)>> \o StandardTiebreak(cards)

\* x is above y, element by element from the left
LexGreater(x, y) ==
    \E k \in 1..min(Len(x), Len(y)) :
        /\ x[k] > y[k]
        /\ \A j \in 1..(k - 1) : x[j] = y[j]

Stronger(a, b) == LexGreater(StandardStrength(a), StandardStrength(b))

\* claim C28: CompareHands puts the hand that is stronger in standard poker
\* before the weaker one; in particular a wheel A-2-3-4-5 comes after the
\* 6-high straight 6-5-4-3-2
C28_OrderIsStandard ==
    out # <<>>
    => /\ Stronger(arg[1], arg[2]) => out = <<1, 2>>
       /\ Stronger(arg[2], arg[1]) => out = <<2, 1>>
       /\ (IsWheel(arg[1]) /\ ValuesOf(arg[2]) = {2, 3, 4, 5, 6}
           /\ (StandardFlush(arg[1]) <=> StandardFlush(arg[2])))
          => out = <<2, 1>>

\* the seats that posted the small and the big blind of the hand in play
SmallBlindSeat(s) == NextActive(s, s.DealerPosition)

BigBlindSeat(s) == NextActive(s, SmallBlindSeat(s))

\* the seats of s, before the flop, that posted less than their blind
\* because their stack was short: they are all-in with a stack of 0
ShortBlindSeats(s) ==
    {p \in Seats :
        /\ s.Round = "preflop"
        /\ s.Players[p].Chips = 0
        /\ \/ p = SmallBlindSeat(s) /\ Contribution(s, p) < SmallBlind
           \/ p = BigBlindSeat(s) /\ Contribution(s, p) < BigBlind}

\* claim C31: a seat that is all-in on a blind it could not post in full is
\* not put into the folded set by its check or its call
C31_ShortBlindStaysIn ==
    \A g \in DecisionPoints :
        LET s == g.State
            p == s.CurrentPlayer
        IN  p \in ShortBlindSeats(s)
            => \A d \in {<<"check", 0>>, <<"call", 0>>} :
                  processDecision(g, d, p).State.FoldedPlayers = s.FoldedPlayers

\* the seats in the hand in s that still have chips
CanAct(s) == {q \in InHand(s) : s.Players[q].Chips > 0}

\* claim C32: a betting round that has just been entered (the step dealt a
\* street) is not left by the next advanceGame step while a seat that is in
\* the hand with chips left, other than the seat that step asked, has not
\* been asked for a decision in the round
C32_EverySeatAsked ==
    [][ (State'.HandNumber = State.HandNumber /\ State'.Round # State.Round)
        => \A d \in Decisions :
              LET mid == AfterDecision(Game', d)
                  asked == InHand(State') \cap {State'.CurrentPlayer}
              IN  Cardinality(InHand(mid)) > 1
                  => \A g2 \in playTurn(Game', d) :
                        (g2.State.Round # mid.Round
                            \/ g2.State.HandNumber # mid.HandNumber)
                        => CanAct(mid) \subseteq asked ]_vars

\* claim C33: whenever a seat is on turn in a betting round, no seat's round
\* contribution exceeds CurrentBet, so the amount-to-call of the acting seat
\* is not negative and its call takes no chips out of the pot
C33_ContributionWithinBet ==
    \A g \in TurnPoints :
        /\ \A q \in Seats : Contribution(g.State, q) <= g.State.CurrentBet
        /\ g \in DecisionPoints
           => /\ AmountToCall(g) >= 0
              /\ processDecision(g, <<"call", 0>>, g.State.CurrentPlayer).State.Pot
                     >= g.State.Pot

\* the GameResult Start returned, as the worker of runParallelGames sends it:
\* AllPlayers is the table's Players slice, PlayerRankings is computed from it
Delivered ==
    populate(GameResultOf(1, [i \in 1..NumPlayers |-> State.Players[i - 1].Chips]))

\* claim C34: in the GameResult of a table that has ended, as it is sent to
\* the aggregation, the player ranked first in PlayerRankings is the Winner
C34_FirstRankedIsWinner ==
    (pc = "returned" /\ ret # NilResult)
    => Delivered.PlayerRankings[1].Player.Name = models_list[ret[1].Winner + 1]

\* claim C35: a hand that starts with two or more non-eliminated seats has
\* a non-eliminated dealer, before and after postBlinds; and a settlement
\* that leaves two or more non-eliminated seats moves the dealer button to
\* the first non-eliminated seat after the seat that held it, wrapping
C35_DealerRotates ==
    /\ HandStarts
       => /\ ~contains(State.EliminatedPlayers, State.DealerPosition)
          /\ \A deck \in Decks :
                newHand(Game, deck).State.DealerPosition = State.DealerPosition
    /\ (Settled /\ Len(getActivePlayers(State)) >= 2)
       => /\ State.DealerPosition = NextActive(State, lastSettle.pre.DealerPosition)
          /\ State.DealerPosition # lastSettle.pre.DealerPosition

\* a hand was settled, the seat after the dealer was eliminated, and the
\* button went past it to the seat after
C35_Witness ==
    /\ Settled
    /\ Len(getActivePlayers(State)) >= 2
    /\ contains(State.EliminatedPlayers, (lastSettle.pre.DealerPosition + 1) % NumPlayers)
    /\ State.DealerPosition = (lastSettle.pre.DealerPosition + 2) % NumPlayers

\* the streets still to be dealt in the hand in play
StreetsLeft(s) == 5 - Len(s.CommunityCards)

\* the seats in the hand that have chips and have not matched the current bet
Owing(s) == {q \in CanAct(s) : Contribution(s, q) < s.CurrentBet}

\* how many seats the turn has to pass before it reaches a seat that owes
TurnsToOwing(s) ==
    IF Owing(s) = {} THEN 0
    ELSE SetMin({i \in 0..(NumPlayers - 1) : (s.CurrentPlayer + i) % NumPlayers \in Owing(s)})

\* what is left of a hand, most significant first: the streets to deal, the
\* room for raising the bet, the seats that owe, the turns to the next of them
HandVariant(s) ==
    <<StreetsLeft(s), TotalChips - s.CurrentBet, Cardinality(Owing(s)), TurnsToOwing(s)>>

\* the next state belongs to the hand this state belongs to, both after
\* the deal and before the settlement
SameHandInPlay ==
    /\ ~atHandStart(State)
    /\ ~atHandStart(State')
    /\ State'.HandNumber = State.HandNumber
    /\ ~State'.GameEnded

\* claim C36: every advanceGame step taken in a hand that has been dealt
\* either settles the hand (the hand counter increases) or brings it nearer
\* to its settlement, whatever the decision, raises included: a quantity
\* that cannot fall forever (streets to deal, room for raising, seats that
\* owe, turns to the next of them) falls with every step; and the Start loop
\* is never stopped inside a hand, so a dealt hand is settled after a finite
\* number of steps
C36_HandsAreSettled ==
    /\ [][ /\ SameHandInPlay => LexGreater(HandVariant(State), HandVariant(State'))
           /\ (~atHandStart(State) /\ ~State.GameEnded /\ State' # State)
              => \/ SameHandInPlay
                 \/ State'.HandNumber = State.HandNumber + 1 ]_vars
    /\ [](\A i \in 1..4 : HandVariant(State)[i] >= 0)
    /\ []((~atHandStart(State) /\ ~State.GameEnded)
             => (pc = "running" /\ stopChan = "open"))

\* the second hand has been settled after the river, in a round with a
\* raise
C36_Witness ==
    /\ Settled
    /\ lastSettle.pre.HandNumber = 2
    /\ lastSettle.pre.Round = "river"
    /\ lastSettle.pre.LastRaiseAmount > 0
    /\ State.HandNumber = 3

\* runParallelGames has returned the complete tournament: no error, every
\* table's result recorded once, every worker goroutine gone, the slots free
AllRecorded ==
    /\ mgr = "returned"
    /\ err = None
    /\ tr.CompletedGames = tr.TotalGames
    /\ tr.TotalGames = Games
    /\ \A id \in DOMAIN worker :
          /\ worker[id] = "exit"
          /\ Cardinality({i \in 1..Len(tr.GameResults) : tr.GameResults[i] = id}) = 1
    /\ workerSem = 0
    /\ queue.items = <<>>

HoleCards(s) == s.Players[0].Cards \o s.Players[1].Cards \o s.Players[2].Cards \o s.Players[3].Cards

CardsOnTable(s) == s.Deck \o s.CommunityCards \o HoleCards(s)

IsPrefix(a, b) == Len(a) <= Len(b) /\ SubSeq(b, 1, Len(a)) = a

\* from s to t no card is taken back or dealt anew: the deck only loses cards
\* from its end, the board only gains cards, and the hole cards stay
NoReshuffle(s, t) ==
    /\ IsPrefix(t.Deck, s.Deck)
    /\ IsPrefix(s.CommunityCards, t.CommunityCards)
    /\ \A q \in Seats : t.Players[q].Cards = s.Players[q].Cards

\* claim C38: during a hand the deck, the hole cards and the community cards
\* are pairwise disjoint and together the 52 cards of one deck; every seat
\* that is not eliminated holds 2 hole cards and every eliminated seat none;
\* and a turn that stays inside the hand deals only from the end of the deck
C38_CardsPartitionDeck ==
    \A g \in TurnPoints :
        LET s == g.State
        IN  /\ Len(CardsOnTable(s)) = 52
            /\ Range(CardsOnTable(s)) = Range(OrderedDeck)
            /\ Cardinality(Range(OrderedDeck)) = 52
            /\ \A q \in Seats :
                  Len(s.Players[q].Cards) =
                      IF contains(s.EliminatedPlayers, q) THEN 0 ELSE 2
            /\ \A d \in Decisions : \A g2 \in playTurn(g, d) :
                  ( /\ g2.State.HandNumber = s.HandNumber
                    /\ ~g2.State.GameEnded
                    /\ ~atHandStart(g2.State) )
                  => NoReshuffle(s, g2.State)

C38_Witness ==
    /\ ~atHandStart(State)
    /\ ~State.GameEnded
    /\ State.Round = "river"
    /\ Len(State.CommunityCards) = 5
    /\ Len(State.EliminatedPlayers) = 1
    /\ Len(State.Deck) = 41

\* no stack and no pot below zero in table state s
NonNegative(s) == s.Pot >= 0 /\ \A q \in Seats : s.Players[q].Chips >= 0

RECURSIVE WinsFrom(_, _, _)
WinsFrom(t, order, i) ==
    IF i > Len(order) THEN 0
    ELSE t.PlayerStats[order[i]].Wins + WinsFrom(t, order, i + 1)

\* claim C40: after any sequence of AddGameResult calls with 4-seat results
\* ranked 1..4, every player's TotalGames is Wins + SecondPlace + ThirdPlace +
\* FourthPlace, and the Wins of all players add up to CompletedGames
C40_PlacementsAddUp ==
    /\ \A n \in DOMAIN tr.PlayerStats :
          LET stats == tr.PlayerStats[n]
          IN  stats.TotalGames =
                  stats.Wins + stats.SecondPlace + stats.ThirdPlace + stats.FourthPlace
    /\ WinsFrom(tr, tr.seen, 1) = tr.CompletedGames
    /\ Range(tr.seen) = DOMAIN tr.PlayerStats
    /\ Len(tr.seen) = Cardinality(DOMAIN tr.PlayerStats)

C40_Witness ==
    /\ tr.CompletedGames = 3
    /\ Cardinality({n \in DOMAIN tr.PlayerStats : tr.PlayerStats[n].Wins > 0}) >= 2
    /\ \E n \in DOMAIN tr.PlayerStats :
          tr.PlayerStats[n].FourthPlace > 0 /\ tr.PlayerStats[n].Wins > 0

====
